---- MODULE Spec2Model ----
(***************************************************************************)
(* SixPack instrument firmware: the stepper engine of the dual-motor       *)
(* gyrocompass firmware (UDP dispatcher, motor_move_to, the gptimer alarm   *)
(* callback) and of the single-motor airspeed firmware.                    *)
(*                                                                         *)
(* Execution model.  The UDP receiver task is the foreground: it runs      *)
(* statement by statement (pc).  Each motor's gptimer alarm callback is an *)
(* interrupt: it runs to completion between any two foreground statements  *)
(* while that timer is running.  The timer follows the firmware's own      *)
(* annotations: gptimer_start arms it, gptimer_stop disarms it, and a      *)
(* callback that returns false ("Stop timer", "Don't re-arm") disarms it.  *)
(***************************************************************************)
EXTENDS Integers, Sequences, FiniteSets, TLC

\* ---------------------------------------------------------------- bounds
\* Datagrams handled in one run of the dual-motor firmware.
MaxCmds == 2

\* ------------------------------------------------------- program constants
STEPS_PER_REV == 2048
FULL_CIRCLE == 360
HALF_CIRCLE == 180
SEQ_LEN == 4

Motors == {0, 1}

\* --------------------------------------------------------- C arithmetic
Abs(x) == IF x < 0 THEN -x ELSE x

\* C's / on ints truncates toward zero (b > 0 everywhere it is used).
CDiv(a, b) == IF a >= 0 THEN a \div b ELSE -((-a) \div b)

\* C's % takes the sign of the dividend.
CMod(a, b) == a - b * CDiv(a, b)

\* --------------------------------------------------------- calibration
Pt(v, a) == [value |-> v, angle |-> a]

\* Gyro compass: heading 0..360 mapped 1:1 onto the dial.
calibration ==
    << Pt(0, 0), Pt(45, 45), Pt(90, 90), Pt(135, 135), Pt(180, 180),
       Pt(225, 225), Pt(270, 270), Pt(315, 315), Pt(360, 360) >>

\* The ratio taken as (value - v1) times a reciprocal kept to three decimals.
Interpolate_Reciprocal(p, q, value) ==
    p.angle + CDiv((value - p.value) * CDiv(1000, q.value - p.value)
                       * (q.angle - p.angle), 1000)

\* (int)(a1 + ratio * (a2 - a1)) with ratio = (float)(value - v1) / (v2 - v1):
\* the cast truncates toward zero.  On every table of the repository the
\* float result equals the exact quotient truncated, which is what is computed.
Interpolate(p, q, value) ==
    CDiv(p.angle * (q.value - p.value) + (value - p.value) * (q.angle - p.angle),
         q.value - p.value)

\* The first segment's line continued below the table instead of the clamp.
TableLookup_ExtrapolateLow(tbl, value) ==
    IF value <= tbl[1].value THEN Interpolate(tbl[1], tbl[2], value)
    ELSE IF value >= tbl[Len(tbl)].value THEN tbl[Len(tbl)].angle
    ELSE LET hits == {i \in 1..(Len(tbl) - 1) :
                         value >= tbl[i].value /\ value <= tbl[i + 1].value}
             i == CHOOSE j \in hits : \A k \in hits : j <= k
         IN  Interpolate(tbl[i], tbl[i + 1], value)

\* Without the clamp to the last breakpoint: the search, then the fall-through.
TableLookup_NoHighClamp(tbl, value) ==
    IF value <= tbl[1].value THEN tbl[1].angle
    ELSE LET hits == {i \in 1..(Len(tbl) - 1) :
                         value >= tbl[i].value /\ value <= tbl[i + 1].value}
         IN  IF hits = {} THEN tbl[1].angle
             ELSE LET i == CHOOSE j \in hits : \A k \in hits : j <= k
                  IN  Interpolate(tbl[i], tbl[i + 1], value)

\* The clamp to the table's ends, then the first bracketing pair.
TableLookup(tbl, value) ==
    IF value <= tbl[1].value THEN tbl[1].angle
    ELSE IF value >= tbl[Len(tbl)].value THEN tbl[Len(tbl)].angle
    ELSE LET hits == {i \in 1..(Len(tbl) - 1) :
                         value >= tbl[i].value /\ value <= tbl[i + 1].value}
         IN  IF hits = {} THEN tbl[1].angle
             ELSE LET i == CHOOSE j \in hits : \A k \in hits : j <= k
                  IN  Interpolate(tbl[i], tbl[i + 1], value)

\* The gyro's value_to_angle wraps the heading into 0..359 first.
value_to_angle(value) ==
    LET r == CMod(value, FULL_CIRCLE)
        v == IF r < 0 THEN r + FULL_CIRCLE ELSE r
    IN  TableLookup(calibration, v)

\* ------------------------------------------------------- motion planner
\* Only the lower bound applied.
ClampTarget_LowOnly(t, lo, hi) == IF t < lo THEN lo ELSE t

\* if (t < min) t = min; if (t > max) t = max;  -- in that order.
ClampTarget(t, lo, hi) ==
    LET t1 == IF t < lo THEN lo ELSE t
    IN  IF t1 > hi THEN hi ELSE t1

\* (steps * 360) / 2048 in C ints.
StepsToAngle(steps) == CDiv(steps * FULL_CIRCLE, STEPS_PER_REV)

\* x % 360, plus 360 when negative.
NormalizeAngle(x) ==
    LET r == CMod(x, FULL_CIRCLE)
    IN  IF r < 0 THEN r + FULL_CIRCLE ELSE r

\* The difference taken as it is, with no turn added or removed.
ShortestPath_NoWrap(d) == d

\* the shortest-path adjustment of target_norm - current_norm.
ShortestPath(d) ==
    IF d > HALF_CIRCLE THEN d - FULL_CIRCLE
    ELSE IF d < -HALF_CIRCLE THEN d + FULL_CIRCLE
    ELSE d

\* The quotient taken the other way round: degrees per step.
StepsFor_Inverted(diff) == CDiv(Abs(diff) * FULL_CIRCLE, STEPS_PER_REV)

\* (abs(diff) * 2048) / 360
StepsFor(diff) == CDiv(Abs(diff) * STEPS_PER_REV, FULL_CIRCLE)

\* (diff >= 0) ? 1 : -1
DirectionOf(diff) == IF diff >= 0 THEN 1 ELSE -1

\* The locals of one motor_move_to call, from its arguments and the step
\* count it read.
PlanMove(caller, m, pos, t, lo, hi, ret) ==
    LET target == ClampTarget(t, lo, hi)
        target_norm == NormalizeAngle(target)
        current_norm == NormalizeAngle(StepsToAngle(pos))
        diff == ShortestPath(target_norm - current_norm)
    IN  [ caller |-> caller, motor_id |-> m, requested |-> t,
          min_angle |-> lo, max_angle |-> hi,
          target_angle |-> target, target_norm |-> target_norm,
          pos_read |-> pos, current_norm |-> current_norm,
          diff |-> diff, steps |-> StepsFor(diff),
          direction |-> DirectionOf(diff),
          was_active |-> FALSE, ret |-> ret ]

NoFrame ==
    [ caller |-> "", motor_id |-> 0, requested |-> 0,
      min_angle |-> 0, max_angle |-> 0, target_angle |-> 0,
      target_norm |-> 0, pos_read |-> 0, current_norm |-> 0, diff |-> 0,
      steps |-> 0, direction |-> 0, was_active |-> FALSE, ret |-> "recv" ]

\* ------------------------------------------------------------ datagrams
\* A datagram is its prefix and its colon-separated fields; a field either
\* converts under %d (ok, with its value) or does not.
F(v) == [ok |-> TRUE, v |-> v]
X == [ok |-> FALSE, v |-> 0]
Dg(p, f) == [prefix |-> p, fields |-> f]

\* sscanf of "%d:...:%d" with n conversions: how many leading fields convert.
Scanned(fields, n) ==
    Cardinality({k \in 1..n : k <= Len(fields) /\ \A j \in 1..k : fields[j].ok})

\* Every field converted on its own, whatever came before it.
Arg_Positional(fields, n, k, default) ==
    IF k <= n /\ k <= Len(fields) /\ fields[k].ok THEN fields[k].v ELSE default

\* The k-th conversion's variable after the sscanf: assigned, or its default.
Arg(fields, n, k, default) ==
    IF Scanned(fields, n) >= k THEN fields[k].v ELSE default

Angles == {1, 359, 400}
Values == {1, -1}
MoveBounds == { <<0, 360>> }

Datagrams ==
    {Dg("ANGLE", <<F(a)>>) : a \in Angles}
    \cup {Dg("ANGLE", <<F(m), F(a)>>) : m \in Motors, a \in Angles}
    \cup {Dg("ANGLE", <<F(m), X>>) : m \in Motors}
    \cup {Dg("ANGLE", <<X>>)}
    \cup {Dg("VALUE", <<F(1)>>), Dg("VALUE", <<F(0), F(1)>>)}
    \cup {Dg("VALUE", <<F(1), F(v)>>) : v \in Values}
    \cup {Dg("VALUE", <<F(m), X>>) : m \in Motors}
    \cup {Dg("VALUE", <<X>>)}
    \cup {Dg("MOVE", <<F(m), F(a), F(b[1]), F(b[2])>>) :
             m \in Motors, a \in Angles, b \in MoveBounds}
    \cup {Dg("MOVE", <<F(0), F(359), F(1)>>), Dg("MOVE", <<F(1), F(359)>>)}
    \cup {Dg("MOVE", <<F(m)>>) : m \in Motors}
    \cup {Dg("MOVE", <<X>>), Dg("MOVE", <<F(1), X, F(1), F(359)>>)}
    \cup {Dg("ZERO", <<F(m)>>) : m \in Motors}
    \cup {Dg("ZERO", <<X>>)}
    \cup {Dg("PING", << >>)}

\* ---------------------------------------------------------------- state
VARIABLES
    current_position_steps,   \* [Motors -> Int]
    seq_idx,                  \* [Motors -> 0..3]
    motor_state,              \* [Motors -> motor_state_t]
    timer_running,            \* [Motors -> BOOLEAN]: motor_timer[m] is counting
    coils,                    \* [Motors -> row of SEQUENCE_FULL last driven]
    heading_bug_target,
    current_compass_heading,
    pc,                       \* where the receiver task is
    mv,                       \* the locals of the motor_move_to in progress
    last_target,              \* [Motors -> normalized target of the last motor_move_to call]
    ncmds,                    \* datagrams received so far
    \* the single-motor airspeed firmware
    air_current_position,     \* current_position: degrees, written on completion and by ZERO
    air_seq_idx,
    air_motor_state,
    air_timer_running,
    air_coils,
    air_shaft,                \* net steps driven since the needle was last declared at 0
    air_pc,
    air_mv,
    air_ncmds,
    cal_instrument,           \* whose value_to_angle is called
    cal_motor_id,             \* its motor_id argument (attitude indicator)
    cal_value,                \* its value argument
    cal_angle,                \* what it returned
    cal_pc,                   \* "idle", "call", "returned"
    \* the heartbeat task and the log server task
    hb_pc,                    \* where heartbeat_task is
    hb_ret,                   \* what its last sendto returned: "none", "ok", "failed"
    heartbeat_count,          \* successful sends, modulo LOG_EVERY
    log_pc,                   \* where wifi_logging_task is
    log_socket,               \* -1 or the client socket the log lines go to
    conn,                     \* [Clients -> "away", "queued", "accepted", "gone"]
    log_dest,                 \* what the last remote write of a log line went to
    main_pc,                  \* where app_main is after creating the tasks
    main_mv,                  \* the locals of app_main's motor_move_to in progress
    \* the inputs firmware (rotary encoder)
    enc_value,                \* encoders[0].value
    last_clk_state,           \* encoder_task's last_clk_state[0]
    last_button_state,        \* encoder_task's last_button_state[0]
    enc_sent                  \* the events the last poll sent, in order

gyroVars ==
    << current_position_steps, seq_idx, motor_state, timer_running, coils,
       heading_bug_target, current_compass_heading, pc, mv, last_target,
       ncmds >>

airMotorVars ==
    << air_current_position, air_seq_idx, air_motor_state, air_timer_running,
       air_coils, air_shaft >>

airVars == << airMotorVars, air_pc, air_mv, air_ncmds >>

calVars == << cal_instrument, cal_motor_id, cal_value, cal_angle, cal_pc >>

hbVars == << hb_pc, hb_ret, heartbeat_count >>

logVars == << log_pc, log_socket, conn, log_dest >>

netVars == << hbVars, logVars >>

mainVars == << main_pc, main_mv >>

encVars == << enc_value, last_clk_state, last_button_state, enc_sent >>

vars == << gyroVars, airVars, calVars, netVars, mainVars, encVars >>

motorVars == << current_position_steps, seq_idx, motor_state, timer_running, coils >>

SEQUENCE_FULL ==
    << <<1, 1, 0, 0>>, <<0, 1, 1, 0>>, <<0, 0, 1, 1>>, <<1, 0, 0, 1>> >>

CoilsOff == <<0, 0, 0, 0>>

AirIdleMotor ==
    [target_angle |-> 0, steps_remaining |-> 0, direction |-> 0, active |-> FALSE]

AirNoFrame ==
    [ target_angle |-> 0, current |-> 0, diff |-> 0, steps |-> 0,
      direction |-> 0, was_active |-> FALSE ]

IdleMotor ==
    [motor_id |-> 0, target_angle |-> 0, steps_remaining |-> 0,
     direction |-> 0, active |-> FALSE]

\* After app_main, in either firmware: motor_init has driven all coils low
\* and enabled the timers without starting them; the homing motor_move_to
\* to 0 found each needle at 0 and returned.
AirInit ==
    /\ air_current_position = 0
    /\ air_seq_idx = 0
    /\ air_motor_state = AirIdleMotor
    /\ air_timer_running = FALSE
    /\ air_coils = CoilsOff
    /\ air_shaft = 0
    /\ air_pc = "recv"
    /\ air_mv = AirNoFrame
    /\ air_ncmds = 0

GyroInit ==
    /\ current_position_steps = [m \in Motors |-> 0]
    /\ seq_idx = [m \in Motors |-> 0]
    /\ motor_state = [m \in Motors |-> IdleMotor]
    /\ timer_running = [m \in Motors |-> FALSE]
    /\ coils = [m \in Motors |-> CoilsOff]
    /\ heading_bug_target = 0
    /\ current_compass_heading = 0
    /\ pc = "recv"
    /\ mv = NoFrame
    /\ last_target = [m \in Motors |-> 0]
    /\ ncmds = 0

\* No stand-alone conversion under way.
CalIdle ==
    /\ cal_instrument = "none"
    /\ cal_motor_id = 0
    /\ cal_value = 0
    /\ cal_angle = 0
    /\ cal_pc = "idle"

\* Peers that may connect to the log port.
Clients == {1, 2}

\* Neither network task has run yet.
NetInit ==
    /\ hb_pc = "start"
    /\ hb_ret = "none"
    /\ heartbeat_count = 0
    /\ log_pc = "socket"
    /\ log_socket = -1
    /\ conn = [c \in Clients |-> "away"]
    /\ log_dest = "none"

\* app_main has made its homing calls and sleeps.
MainDone ==
    /\ main_pc = "done"
    /\ main_mv = NoFrame

\* The encoder as initialised, encoder_task not yet polling.
EncInit ==
    /\ enc_value = 0
    /\ last_clk_state = 0
    /\ last_button_state = 1
    /\ enc_sent = << >>

Init == GyroInit /\ AirInit /\ CalIdle /\ NetInit /\ MainDone /\ EncInit

\* ------------------------------------------------- timer alarm callback
\* The phase moved on by two rows.
NextSeqIdx_TwoRows(m, idx, direction) == (idx + 2) % SEQ_LEN

\* Both motors stepping the phase the same way round.
NextSeqIdx_SameWiring(m, idx, direction) ==
    IF direction > 0 THEN (idx + 1) % SEQ_LEN ELSE (idx - 1 + SEQ_LEN) % SEQ_LEN

\* The phase step of one tick: motor 0 is wired reversed.
NextSeqIdx(m, idx, direction) ==
    IF direction > 0
    THEN IF m = 0 THEN (idx - 1 + SEQ_LEN) % SEQ_LEN ELSE (idx + 1) % SEQ_LEN
    ELSE IF m = 0 THEN (idx + 1) % SEQ_LEN ELSE (idx - 1 + SEQ_LEN) % SEQ_LEN

\* The callback also clearing the direction when the move completes.
motor_timer_callback_ClearsDirection(m) ==
    /\ UNCHANGED << airVars, calVars, netVars, mainVars, encVars >>
    /\ timer_running[m]
    /\ LET state == motor_state[m]
       IN  IF ~state.active \/ state.steps_remaining <= 0
           THEN /\ timer_running' = [timer_running EXCEPT ![m] = FALSE]
                /\ UNCHANGED << current_position_steps, seq_idx, motor_state, coils >>
           ELSE LET left == state.steps_remaining - 1
                IN  /\ coils' = [coils EXCEPT ![m] = SEQUENCE_FULL[seq_idx[m] + 1]]
                    /\ seq_idx' = [seq_idx EXCEPT
                                      ![m] = NextSeqIdx(m, seq_idx[m], state.direction)]
                    /\ current_position_steps' =
                           [current_position_steps EXCEPT
                               ![m] = IF state.direction > 0 THEN @ + 1 ELSE @ - 1]
                    /\ motor_state' =
                           [motor_state EXCEPT
                               ![m].steps_remaining = left,
                               ![m].direction = IF left <= 0 THEN 0 ELSE @,
                               ![m].active = IF left <= 0 THEN FALSE ELSE @]
                    /\ timer_running' =
                           [timer_running EXCEPT ![m] = IF left <= 0 THEN FALSE ELSE @]
    /\ UNCHANGED << heading_bug_target, current_compass_heading, pc, mv,
                    last_target, ncmds >>

\* The callback ending the move with one step still to go.
motor_timer_callback_StopsEarly(m) ==
    /\ UNCHANGED << airVars, calVars, netVars, mainVars, encVars >>
    /\ timer_running[m]
    /\ LET state == motor_state[m]
       IN  IF ~state.active \/ state.steps_remaining <= 0
           THEN /\ timer_running' = [timer_running EXCEPT ![m] = FALSE]
                /\ UNCHANGED << current_position_steps, seq_idx, motor_state, coils >>
           ELSE LET left == state.steps_remaining - 1
                IN  /\ coils' = [coils EXCEPT ![m] = SEQUENCE_FULL[seq_idx[m] + 1]]
                    /\ seq_idx' = [seq_idx EXCEPT
                                      ![m] = NextSeqIdx(m, seq_idx[m], state.direction)]
                    /\ current_position_steps' =
                           [current_position_steps EXCEPT
                               ![m] = IF state.direction > 0 THEN @ + 1 ELSE @ - 1]
                    /\ motor_state' =
                           [motor_state EXCEPT
                               ![m].steps_remaining = left,
                               ![m].active = IF left <= 1 THEN FALSE ELSE @]
                    /\ timer_running' =
                           [timer_running EXCEPT ![m] = IF left <= 1 THEN FALSE ELSE @]
    /\ UNCHANGED << heading_bug_target, current_compass_heading, pc, mv,
                    last_target, ncmds >>

\* The alarm that finds no plan switching the coils off.
motor_timer_callback_ReleasesCoils(m) ==
    /\ UNCHANGED << airVars, calVars, netVars, mainVars, encVars >>
    /\ timer_running[m]
    /\ LET state == motor_state[m]
       IN  IF ~state.active \/ state.steps_remaining <= 0
           THEN /\ timer_running' = [timer_running EXCEPT ![m] = FALSE]
                /\ coils' = [coils EXCEPT ![m] = CoilsOff]
                /\ UNCHANGED << current_position_steps, seq_idx, motor_state >>
           ELSE LET left == state.steps_remaining - 1
                IN  /\ coils' = [coils EXCEPT ![m] = SEQUENCE_FULL[seq_idx[m] + 1]]
                    /\ seq_idx' = [seq_idx EXCEPT
                                      ![m] = NextSeqIdx(m, seq_idx[m], state.direction)]
                    /\ current_position_steps' =
                           [current_position_steps EXCEPT
                               ![m] = IF state.direction > 0 THEN @ + 1 ELSE @ - 1]
                    /\ motor_state' =
                           [motor_state EXCEPT
                               ![m].steps_remaining = left,
                               ![m].active = IF left <= 0 THEN FALSE ELSE @]
                    /\ timer_running' =
                           [timer_running EXCEPT ![m] = IF left <= 0 THEN FALSE ELSE @]
    /\ UNCHANGED << heading_bug_target, current_compass_heading, pc, mv,
                    last_target, ncmds >>

motor_timer_callback(m) ==
    /\ UNCHANGED << airVars, calVars, netVars, mainVars, encVars >>
    /\ timer_running[m]
    /\ LET state == motor_state[m]
       IN  IF ~state.active \/ state.steps_remaining <= 0
           THEN /\ timer_running' = [timer_running EXCEPT ![m] = FALSE]
                /\ UNCHANGED << current_position_steps, seq_idx, motor_state, coils >>
           ELSE LET left == state.steps_remaining - 1
                IN  /\ coils' = [coils EXCEPT ![m] = SEQUENCE_FULL[seq_idx[m] + 1]]
                    /\ seq_idx' = [seq_idx EXCEPT
                                      ![m] = NextSeqIdx(m, seq_idx[m], state.direction)]
                    /\ current_position_steps' =
                           [current_position_steps EXCEPT
                               ![m] = IF state.direction > 0 THEN @ + 1 ELSE @ - 1]
                    /\ motor_state' =
                           [motor_state EXCEPT
                               ![m].steps_remaining = left,
                               ![m].active = IF left <= 0 THEN FALSE ELSE @]
                    /\ timer_running' =
                           [timer_running EXCEPT ![m] = IF left <= 0 THEN FALSE ELSE @]
    /\ UNCHANGED << heading_bug_target, current_compass_heading, pc, mv,
                    last_target, ncmds >>

\* -------------------------------------------------------- motor_move_to
\* The entry without the "already at target" return.
BeginMove_AlwaysPlans(caller, m, t, lo, hi, ret) ==
    LET f == PlanMove(caller, m, current_position_steps[m], t, lo, hi, ret)
    IN  /\ last_target' = [last_target EXCEPT ![m] = f.target_norm]
        /\ pc' = "check"
        /\ mv' = f

\* The "already at target" return taken only by a motor that is not moving.
BeginMove_ReturnsWhenIdle(caller, m, t, lo, hi, ret) ==
    LET f == PlanMove(caller, m, current_position_steps[m], t, lo, hi, ret)
    IN  /\ last_target' = [last_target EXCEPT ![m] = f.target_norm]
        /\ IF f.diff = 0 /\ ~motor_state[m].active
           THEN /\ pc' = ret
                /\ mv' = NoFrame
           ELSE /\ pc' = "check"
                /\ mv' = f

\* Entry of motor_move_to up to the "already at target" test: the clamp, the
\* read of current_position_steps[m], the plan, the log line.
BeginMove(caller, m, t, lo, hi, ret) ==
    LET f == PlanMove(caller, m, current_position_steps[m], t, lo, hi, ret)
    IN  /\ last_target' = [last_target EXCEPT ![m] = f.target_norm]
        /\ IF f.diff = 0
           THEN /\ pc' = ret
                /\ mv' = NoFrame
           ELSE /\ pc' = "check"
                /\ mv' = f

\* if (motor_state[motor_id].active)
CheckActive ==
    /\ UNCHANGED << airVars, calVars, netVars, mainVars, encVars >>
    /\ pc = "check"
    /\ IF motor_state[mv.motor_id].active
       THEN /\ pc' = "stop"
            /\ mv' = [mv EXCEPT !.was_active = TRUE]
       ELSE /\ pc' = "write"
            /\ mv' = mv
    /\ UNCHANGED << motorVars, heading_bug_target, current_compass_heading, 
                    last_target, ncmds >>

\* The branch taken without the gptimer_stop call.
StopTimer_Skipped ==
    /\ pc = "stop"
    /\ pc' = "clear"
    /\ UNCHANGED << motorVars, heading_bug_target, current_compass_heading, mv,
                    last_target, ncmds, airVars, calVars, netVars, mainVars, encVars >>

\* gptimer_stop(motor_timer[motor_id])
StopTimer ==
    /\ UNCHANGED << airVars, calVars, netVars, mainVars, encVars >>
    /\ pc = "stop"
    /\ timer_running' = [timer_running EXCEPT ![mv.motor_id] = FALSE]
    /\ pc' = "clear"
    /\ UNCHANGED << current_position_steps, seq_idx, motor_state, coils,
                    heading_bug_target, current_compass_heading, mv,
                    last_target, ncmds >>

\* motor_state[motor_id].active = false
ClearActive ==
    /\ UNCHANGED << airVars, calVars, netVars, mainVars, encVars >>
    /\ pc = "clear"
    /\ motor_state' = [motor_state EXCEPT ![mv.motor_id].active = FALSE]
    /\ pc' = "write"
    /\ UNCHANGED << current_position_steps, seq_idx, timer_running, coils,
                    heading_bug_target, current_compass_heading, mv,
                    last_target, ncmds >>

\* The new steps added to those the old plan had left.
InstalledState_Queued(old, f) ==
    [ motor_id |-> f.motor_id, target_angle |-> f.target_norm,
      steps_remaining |-> old.steps_remaining + f.steps,
      direction |-> f.direction, active |-> TRUE ]

\* The five stores of "Set up new movement".
InstalledState(old, f) ==
    [ motor_id |-> f.motor_id, target_angle |-> f.target_norm,
      steps_remaining |-> f.steps, direction |-> f.direction, active |-> TRUE ]

\* The plan written and the timer started without the counter reset.
WritePlan_SkipsReset ==
    /\ UNCHANGED << airVars, calVars, netVars, mainVars, encVars >>
    /\ pc = "write"
    /\ motor_state' =
           [motor_state EXCEPT ![mv.motor_id] = InstalledState(@, mv)]
    /\ pc' = "start"
    /\ UNCHANGED << current_position_steps, seq_idx, timer_running, coils,
                    heading_bug_target, current_compass_heading, mv,
                    last_target, ncmds >>

WritePlan ==
    /\ UNCHANGED << airVars, calVars, netVars, mainVars, encVars >>
    /\ pc = "write"
    /\ motor_state' =
           [motor_state EXCEPT ![mv.motor_id] = InstalledState(@, mv)]
    /\ pc' = "reset"
    /\ UNCHANGED << current_position_steps, seq_idx, timer_running, coils,
                    heading_bug_target, current_compass_heading, mv,
                    last_target, ncmds >>

\* gptimer_set_raw_count(motor_timer[motor_id], 0)
ResetCount ==
    /\ UNCHANGED << airVars, calVars, netVars, mainVars, encVars >>
    /\ pc = "reset"
    /\ pc' = "start"
    /\ UNCHANGED << motorVars, heading_bug_target, current_compass_heading, 
                    mv, last_target, ncmds >>

\* gptimer_start(motor_timer[motor_id]), and the return to the dispatcher.
StartTimer ==
    /\ UNCHANGED << airVars, calVars, netVars, mainVars, encVars >>
    /\ pc = "start"
    /\ timer_running' = [timer_running EXCEPT ![mv.motor_id] = TRUE]
    /\ pc' = mv.ret
    /\ mv' = NoFrame
    /\ UNCHANGED << current_position_steps, seq_idx, motor_state, coils,
                    heading_bug_target, current_compass_heading, last_target,
                    ncmds >>

\* ------------------------------------------------------------ dispatcher
\* (heading_bug_target - current_compass_heading + 360) % 360
BugAngle(bug, heading) == CMod(bug - heading + FULL_CIRCLE, FULL_CIRCLE)

\* The VALUE and ANGLE branches read "%d:%d", else "%d" with motor 0.
TwoFieldOk(fields) == Scanned(fields, 2) = 2 \/ Scanned(fields, 1) = 1
\* motor_id left as the two-field sscanf wrote it, when that names a motor.
TwoFieldMotor_KeepsFirst(fields) == IF fields[1].v \in Motors THEN fields[1].v ELSE 0
TwoFieldMotor(fields) == IF Scanned(fields, 2) = 2 THEN fields[1].v ELSE 0
TwoFieldValue(fields) == IF Scanned(fields, 2) = 2 THEN fields[2].v ELSE fields[1].v

HandleValue(d) ==
    IF ~TwoFieldOk(d.fields)
    THEN /\ pc' = "recv"
         /\ UNCHANGED << motorVars, heading_bug_target, current_compass_heading,
                         mv, last_target >>
    ELSE LET motor_id == TwoFieldMotor(d.fields)
             value == TwoFieldValue(d.fields)
         IN  IF motor_id = 0
             THEN /\ current_compass_heading' = value
                  /\ BeginMove("VALUE", 0, value_to_angle(value), 0, FULL_CIRCLE, "bug")
                  /\ UNCHANGED << motorVars, heading_bug_target >>
             ELSE /\ heading_bug_target' = value
                  /\ BeginMove("VALUE", motor_id,
                               BugAngle(value, current_compass_heading),
                               0, FULL_CIRCLE, "recv")
                  /\ UNCHANGED << motorVars, current_compass_heading >>

HandleAngle(d) ==
    IF ~TwoFieldOk(d.fields)
    THEN /\ pc' = "recv"
         /\ UNCHANGED << motorVars, heading_bug_target, current_compass_heading,
                         mv, last_target >>
    ELSE /\ BeginMove("ANGLE", TwoFieldMotor(d.fields), TwoFieldValue(d.fields),
                      0, FULL_CIRCLE, "recv")
         /\ UNCHANGED << motorVars, heading_bug_target, current_compass_heading >>

HandleMove(d) ==
    /\ BeginMove("MOVE", Arg(d.fields, 4, 1, 0), Arg(d.fields, 4, 2, 0),
                 Arg(d.fields, 4, 3, 0), Arg(d.fields, 4, 4, FULL_CIRCLE), "recv")
    /\ UNCHANGED << motorVars, heading_bug_target, current_compass_heading >>

\* ZERO clearing every motor's step count.
HandleZero_AllMotors(d) ==
    LET motor_id == Arg(d.fields, 1, 1, 0)
    IN  /\ current_position_steps' = [m \in Motors |-> 0]
        /\ pc' = "zero_seq"
        /\ mv' = [NoFrame EXCEPT !.motor_id = motor_id]
        /\ UNCHANGED << seq_idx, motor_state, timer_running, coils,
                        heading_bug_target, current_compass_heading, last_target >>

\* ZERO: the store to current_position_steps[motor_id]; the store to
\* seq_idx[motor_id] is the next statement.
HandleZero(d) ==
    LET motor_id == Arg(d.fields, 1, 1, 0)
    IN  /\ current_position_steps' = [current_position_steps EXCEPT ![motor_id] = 0]
        /\ pc' = "zero_seq"
        /\ mv' = [NoFrame EXCEPT !.motor_id = motor_id]
        /\ UNCHANGED << seq_idx, motor_state, timer_running, coils,
                        heading_bug_target, current_compass_heading, last_target >>

HandleUnknown(d) ==
    /\ pc' = "recv"
    /\ UNCHANGED << motorVars, heading_bug_target, current_compass_heading, mv,
                    last_target >>

\* recvfrom returns d; the strncmp chain picks the branch.
Receive(d) ==
    /\ UNCHANGED << airVars, calVars, netVars, mainVars, encVars >>
    /\ pc = "recv"
    /\ ncmds < MaxCmds
    /\ ncmds' = ncmds + 1
    /\ CASE d.prefix = "VALUE" -> HandleValue(d)
         [] d.prefix = "ANGLE" -> HandleAngle(d)
         [] d.prefix = "MOVE" -> HandleMove(d)
         [] d.prefix = "ZERO" -> HandleZero(d)
         [] OTHER -> HandleUnknown(d)

\* seq_idx[motor_id] = 0, the second store of ZERO.
ZeroSeq ==
    /\ UNCHANGED << airVars, calVars, netVars, mainVars, encVars >>
    /\ pc = "zero_seq"
    /\ seq_idx' = [seq_idx EXCEPT ![mv.motor_id] = 0]
    /\ pc' = "recv"
    /\ mv' = NoFrame
    /\ UNCHANGED << current_position_steps, motor_state, timer_running, coils,
                    heading_bug_target, current_compass_heading, last_target,
                    ncmds >>

\* The bug update coming back to itself after its call.
UpdateBug_Again ==
    /\ UNCHANGED << airVars, calVars, netVars, mainVars, encVars >>
    /\ pc = "bug"
    /\ BeginMove("VALUE", 1,
                 BugAngle(heading_bug_target, current_compass_heading),
                 0, FULL_CIRCLE, "bug")
    /\ UNCHANGED << motorVars, heading_bug_target, current_compass_heading, ncmds >>

\* After VALUE for motor 0: reposition the bug when a bug target is set.
UpdateBug ==
    /\ UNCHANGED << airVars, calVars, netVars, mainVars, encVars >>
    /\ pc = "bug"
    /\ IF heading_bug_target >= 0
       THEN BeginMove("VALUE", 1,
                      BugAngle(heading_bug_target, current_compass_heading),
                      0, FULL_CIRCLE, "recv")
       ELSE /\ pc' = "recv"
            /\ mv' = NoFrame
            /\ UNCHANGED last_target
    /\ UNCHANGED << motorVars, heading_bug_target, current_compass_heading, ncmds >>

\* The motors' state as one value, and what one alarm of motor m's timer
\* makes of it (nothing when that timer is not running).
MotorsNow ==
    [ pos |-> current_position_steps, seq |-> seq_idx, st |-> motor_state,
      run |-> timer_running, coils |-> coils ]

Ticked(m, S) ==
    IF ~S.run[m]
    THEN S
    ELSE IF ~S.st[m].active \/ S.st[m].steps_remaining <= 0
    THEN [S EXCEPT !.run[m] = FALSE]
    ELSE LET left == S.st[m].steps_remaining - 1
         IN  [S EXCEPT !.coils[m] = SEQUENCE_FULL[S.seq[m] + 1],
                       !.seq[m] = NextSeqIdx(m, S.seq[m], S.st[m].direction),
                       !.pos[m] = IF S.st[m].direction > 0 THEN @ + 1 ELSE @ - 1,
                       !.st[m].steps_remaining = left,
                       !.st[m].active = IF left <= 0 THEN FALSE ELSE @,
                       !.run[m] = IF left <= 0 THEN FALSE ELSE @]

Tick == \E m \in Motors : motor_timer_callback(m)

\* The datagrams of a run with ticks. Of the forms with the same effect on
\* the motors one is kept (a full MOVE within 0..360 and the ANGLE of the same
\* motor and angle; 400 and 0); VALUE sets the heading to 1 or the bug target
\* to -1; motor 1 is moved by VALUE and MOVE.
RunDatagrams ==
    {d \in Datagrams :
        /\ ~(d.prefix = "MOVE" /\ Scanned(d.fields, 4) = 4)
        /\ \A k \in 1..Len(d.fields) : d.fields[k].v # 400
        /\ d # Dg("MOVE", <<F(1), F(359)>>)
        /\ ~(d.prefix = "ANGLE" /\ Scanned(d.fields, 2) = 2 /\ d.fields[1].v = 1)
        /\ d.prefix = "VALUE" =>
               d \in {Dg("VALUE", <<F(1)>>), Dg("VALUE", <<F(0), F(1)>>),
                      Dg("VALUE", <<F(1), X>>), Dg("VALUE", <<X>>),
                      Dg("VALUE", <<F(1), F(-1)>>)}}

Recv == \E d \in RunDatagrams : Receive(d)

\* Every form of datagram.
FormsRecv == \E d \in Datagrams : Receive(d)

Next ==
    \/ Recv
    \/ CheckActive
    \/ StopTimer
    \/ ClearActive
    \/ WritePlan
    \/ ResetCount
    \/ StartTimer
    \/ ZeroSeq
    \/ UpdateBug
    \/ Tick

Spec == Init /\ [][Next]_vars

\* ================================================= airspeed (one motor)
\* Datagrams handled in one run of the single-motor firmware.
MaxAirCmds == 2

\* Airspeed: knots -> degrees.
air_calibration ==
    << Pt(40, 32), Pt(50, 52), Pt(60, 72), Pt(70, 94), Pt(80, 116),
       Pt(90, 138), Pt(100, 161), Pt(110, 182), Pt(120, 203), Pt(200, 315) >>

air_value_to_angle(value) == TableLookup(air_calibration, value)

\* (int)(abs(diff) / (360.0 / 2048)): the double quotient truncated, which for
\* every diff a clamp into a range of a few turns can give is (|diff|*2048)/360.
AirStepsFor(diff) == CDiv(Abs(diff) * STEPS_PER_REV, FULL_CIRCLE)

\* The locals of the single-motor motor_move_to: the target is not
\* normalized and the difference is taken as is.
AirPlanMove(current_position, t, lo, hi) ==
    LET target == ClampTarget(t, lo, hi)
        current == current_position        \* (int)current_position
        diff == target - current
    IN  [ target_angle |-> target, current |-> current, diff |-> diff,
          steps |-> AirStepsFor(diff), direction |-> DirectionOf(diff),
          was_active |-> FALSE ]

AirAngles == {1, 2}
AirMotorIds == {0, 1}

AirDatagrams ==
    {Dg("ANGLE", <<F(a)>>) : a \in AirAngles}
    \cup {Dg("ANGLE", <<F(m), F(a)>>) : m \in AirMotorIds, a \in AirAngles}
    \cup {Dg("ANGLE", <<X>>)}
    \cup {Dg("VALUE", <<F(40)>>), Dg("VALUE", <<F(1), F(40)>>), Dg("VALUE", <<X>>)}
    \cup {Dg("MOVE", <<F(m), F(a), F(0), F(1)>>) : m \in AirMotorIds, a \in AirAngles}
    \cup {Dg("MOVE", <<F(0), F(-5), F(0), F(360)>>), Dg("MOVE", <<X>>)}
    \cup {Dg("ZERO", <<F(m)>>) : m \in AirMotorIds}
    \cup {Dg("ZERO", <<X>>), Dg("PING", << >>)}

AirNextSeqIdx(idx, direction) ==
    IF direction > 0 THEN (idx + 1) % SEQ_LEN ELSE (idx - 1 + SEQ_LEN) % SEQ_LEN

air_motor_timer_callback ==
    /\ air_timer_running
    /\ IF ~air_motor_state.active \/ air_motor_state.steps_remaining <= 0
       THEN /\ air_timer_running' = FALSE
            /\ UNCHANGED << air_current_position, air_seq_idx, air_motor_state,
                            air_coils, air_shaft >>
       ELSE LET left == air_motor_state.steps_remaining - 1
            IN  /\ air_coils' = SEQUENCE_FULL[air_seq_idx + 1]
                /\ air_seq_idx' = AirNextSeqIdx(air_seq_idx, air_motor_state.direction)
                /\ air_shaft' = air_shaft
                                  + (IF air_motor_state.direction > 0 THEN 1 ELSE -1)
                /\ air_motor_state' =
                       [air_motor_state EXCEPT
                           !.steps_remaining = left,
                           !.active = IF left <= 0 THEN FALSE ELSE @]
                /\ air_current_position' =
                       IF left <= 0 THEN air_motor_state.target_angle
                       ELSE air_current_position
                /\ air_timer_running' = (left > 0)
    /\ UNCHANGED << air_pc, air_mv, air_ncmds >>
    /\ UNCHANGED << gyroVars, calVars, netVars, mainVars, encVars >>

\* Entry of the single-motor motor_move_to up to the "already at target" test.
AirBeginMove(t, lo, hi) ==
    LET f == AirPlanMove(air_current_position, t, lo, hi)
    IN  IF f.diff = 0
        THEN /\ air_pc' = "recv"
             /\ air_mv' = AirNoFrame
        ELSE /\ air_pc' = "check"
             /\ air_mv' = f

AirCheckActive ==
    /\ air_pc = "check"
    /\ IF air_motor_state.active
       THEN /\ air_pc' = "stop"
            /\ air_mv' = [air_mv EXCEPT !.was_active = TRUE]
       ELSE /\ air_pc' = "write"
            /\ air_mv' = air_mv
    /\ UNCHANGED << airMotorVars, air_ncmds >>
    /\ UNCHANGED << gyroVars, calVars, netVars, mainVars, encVars >>

AirStopTimer ==
    /\ air_pc = "stop"
    /\ air_timer_running' = FALSE
    /\ air_pc' = "clear"
    /\ UNCHANGED << air_current_position, air_seq_idx, air_motor_state, air_coils,
                    air_shaft, air_mv, air_ncmds >>
    /\ UNCHANGED << gyroVars, calVars, netVars, mainVars, encVars >>

AirClearActive ==
    /\ air_pc = "clear"
    /\ air_motor_state' = [air_motor_state EXCEPT !.active = FALSE]
    /\ air_pc' = "write"
    /\ UNCHANGED << air_current_position, air_seq_idx, air_timer_running, air_coils,
                    air_shaft, air_mv, air_ncmds >>
    /\ UNCHANGED << gyroVars, calVars, netVars, mainVars, encVars >>

AirInstalledState(old, f) ==
    [ target_angle |-> f.target_angle, steps_remaining |-> f.steps,
      direction |-> f.direction, active |-> TRUE ]

AirWritePlan ==
    /\ air_pc = "write"
    /\ air_motor_state' = AirInstalledState(air_motor_state, air_mv)
    /\ air_pc' = "reset"
    /\ UNCHANGED << air_current_position, air_seq_idx, air_timer_running, air_coils,
                    air_shaft, air_mv, air_ncmds >>
    /\ UNCHANGED << gyroVars, calVars, netVars, mainVars, encVars >>

AirResetCount ==
    /\ air_pc = "reset"
    /\ air_pc' = "start"
    /\ UNCHANGED << airMotorVars, air_mv, air_ncmds >>
    /\ UNCHANGED << gyroVars, calVars, netVars, mainVars, encVars >>

AirStartTimer ==
    /\ air_pc = "start"
    /\ air_timer_running' = TRUE
    /\ air_pc' = "recv"
    /\ air_mv' = AirNoFrame
    /\ UNCHANGED << air_current_position, air_seq_idx, air_motor_state, air_coils,
                    air_shaft, air_ncmds >>
    /\ UNCHANGED << gyroVars, calVars, netVars, mainVars, encVars >>

\* The dispatcher parses a motor id and never uses it.
AirReceive(d) ==
    /\ air_pc = "recv"
    /\ air_ncmds < MaxAirCmds
    /\ air_ncmds' = air_ncmds + 1
    /\ UNCHANGED << gyroVars, calVars, netVars, mainVars, encVars >>
    /\ CASE d.prefix = "VALUE" /\ TwoFieldOk(d.fields) ->
                /\ AirBeginMove(air_value_to_angle(TwoFieldValue(d.fields)),
                                0, FULL_CIRCLE)
                /\ UNCHANGED airMotorVars
         [] d.prefix = "ANGLE" /\ TwoFieldOk(d.fields) ->
                /\ AirBeginMove(TwoFieldValue(d.fields), 0, FULL_CIRCLE)
                /\ UNCHANGED airMotorVars
         [] d.prefix = "MOVE" ->
                /\ AirBeginMove(Arg(d.fields, 4, 2, 0), Arg(d.fields, 4, 3, 0),
                                Arg(d.fields, 4, 4, FULL_CIRCLE))
                /\ UNCHANGED airMotorVars
         [] d.prefix = "ZERO" ->
                /\ air_current_position' = 0
                /\ air_shaft' = 0
                /\ air_pc' = "zero_seq"
                /\ UNCHANGED << air_seq_idx, air_motor_state, air_timer_running,
                                air_coils, air_mv >>
         [] OTHER ->
                /\ air_pc' = "recv"
                /\ UNCHANGED << airMotorVars, air_mv >>

AirZeroSeq ==
    /\ air_pc = "zero_seq"
    /\ air_seq_idx' = 0
    /\ air_pc' = "recv"
    /\ UNCHANGED << air_current_position, air_motor_state, air_timer_running,
                    air_coils, air_shaft, air_mv, air_ncmds >>
    /\ UNCHANGED << gyroVars, calVars, netVars, mainVars, encVars >>

AirRecv == \E d \in AirDatagrams : AirReceive(d)

NextAirspeed ==
    \/ AirRecv
    \/ AirCheckActive
    \/ AirStopTimer
    \/ AirClearActive
    \/ AirWritePlan
    \/ AirResetCount
    \/ AirStartTimer
    \/ AirZeroSeq
    \/ air_motor_timer_callback

SpecAirspeed == Init /\ [][NextAirspeed]_vars

\* ===================================== the planner over drawn positions
\* Step counts the planner is applied to: -MaxPlanPos..MaxPlanPos, more than
\* half a turn either way, so every displayed angle 0..359 occurs, from a
\* positive and from a negative count.
MaxPlanPos == 1100

PlanAngles == {-5, 10, 180, 181, 350, 400}
PlanBounds == { <<0, 360>>, <<10, 350>>, <<350, 10>> }

PlanDatagrams ==
    {Dg("MOVE", <<F(m), F(a), F(b[1]), F(b[2])>>) :
        m \in Motors, a \in PlanAngles, b \in PlanBounds}
    \cup {Dg("ANGLE", <<F(m), F(a)>>) : m \in Motors, a \in PlanAngles}
    \cup {Dg("VALUE", <<F(m), F(v)>>) : m \in Motors, v \in {-5, 400}}

\* Both needles idle at step count p, every step of the way there taken from
\* phase 0 (motor 0 steps its phase backwards), and one datagram to come.
InitPlan ==
    /\ \E p \in (-MaxPlanPos)..MaxPlanPos :
          /\ current_position_steps = [m \in Motors |-> p]
          /\ seq_idx = [m \in Motors |-> IF m = 0 THEN (-p) % SEQ_LEN ELSE p % SEQ_LEN]
    /\ motor_state = [m \in Motors |-> IdleMotor]
    /\ timer_running = [m \in Motors |-> FALSE]
    /\ coils = [m \in Motors |-> CoilsOff]
    /\ heading_bug_target = 0
    /\ current_compass_heading = 0
    /\ pc = "recv"
    /\ mv = NoFrame
    /\ last_target =
          [m \in Motors |-> NormalizeAngle(StepsToAngle(current_position_steps[m]))]
    /\ ncmds = MaxCmds - 1
    /\ AirInit
    /\ CalIdle
    /\ NetInit /\ MainDone /\ EncInit

PlanRecv == \E d \in PlanDatagrams : Receive(d)

NextPlan ==
    \/ PlanRecv
    \/ CheckActive
    \/ WritePlan
    \/ ResetCount
    \/ StartTimer
    \/ UpdateBug

SpecPlan == InitPlan /\ [][NextPlan]_vars

\* ===================================== one datagram of every form, no ticks
\* Step counts the needles rest at when the datagram arrives.
MaxFormPos == 12

\* As InitPlan, over the step counts of a few degrees either way.
InitForms ==
    /\ \E p \in (-MaxFormPos)..MaxFormPos :
          /\ current_position_steps = [m \in Motors |-> p]
          /\ seq_idx = [m \in Motors |-> IF m = 0 THEN (-p) % SEQ_LEN ELSE p % SEQ_LEN]
    /\ motor_state = [m \in Motors |-> IdleMotor]
    /\ timer_running = [m \in Motors |-> FALSE]
    /\ coils = [m \in Motors |-> CoilsOff]
    /\ heading_bug_target = 0
    /\ current_compass_heading = 0
    /\ pc = "recv"
    /\ mv = NoFrame
    /\ last_target =
          [m \in Motors |-> NormalizeAngle(StepsToAngle(current_position_steps[m]))]
    /\ ncmds = MaxCmds - 1
    /\ AirInit
    /\ CalIdle
    /\ NetInit /\ MainDone /\ EncInit

NextForms ==
    \/ FormsRecv
    \/ CheckActive
    \/ WritePlan
    \/ ResetCount
    \/ StartTimer
    \/ ZeroSeq
    \/ UpdateBug

SpecForms == InitForms /\ [][NextForms]_vars

\* ============================================ move commands only (no ZERO)
MoveDatagrams == {d \in RunDatagrams : d.prefix # "ZERO"}

MovesRecv == \E d \in MoveDatagrams : Receive(d)

NextMoves ==
    \/ MovesRecv
    \/ CheckActive
    \/ StopTimer
    \/ ClearActive
    \/ WritePlan
    \/ ResetCount
    \/ StartTimer
    \/ UpdateBug
    \/ Tick

SpecMoves == Init /\ [][NextMoves]_vars

\* ========================================= headings and bug headings
\* Quarter turns either way that the headings sent reach.
MaxQuarterTurns == 5

HeadingValues == {(HALF_CIRCLE \div 2) * k : k \in (-MaxQuarterTurns)..MaxQuarterTurns}

\* VALUE:0:<h> and VALUE:1:<b>.
BugDatagrams ==
    {Dg("VALUE", <<F(0), F(h)>>) : h \in HeadingValues}
    \cup {Dg("VALUE", <<F(1), F(b)>>) : b \in HeadingValues}

BugRecv == \E d \in BugDatagrams : Receive(d)

NextBug ==
    \/ BugRecv
    \/ CheckActive
    \/ StopTimer
    \/ ClearActive
    \/ WritePlan
    \/ ResetCount
    \/ StartTimer
    \/ UpdateBug

SpecBug == Init /\ [][NextBug]_vars

\* ============================================ rotary encoder (inputs ESP)
\* Counts either way that the encoder is turned to.
MaxEncValue == 6

Levels == {0, 1}

\* "ENCODER:%s:%d:%s" of the one encoder, EC11_HdgBug.
EncoderEvent(value, pressed) ==
    [ name |-> "EC11_HdgBug", value |-> value,
      state |-> IF pressed = 1 THEN "PRESSED" ELSE "released" ]

\* encoder_task has set up its socket and read CLK once.
InitEncoder ==
    /\ enc_value = 0
    /\ last_clk_state \in Levels
    /\ last_button_state = 1
    /\ enc_sent = << >>
    /\ GyroInit
    /\ AirInit
    /\ CalIdle
    /\ NetInit
    /\ MainDone

\* The poll counting on either edge of CLK.
EncoderPoll_AnyEdge(clk, dt_first, dt, btn_first, btn_again) ==
    /\ Abs(enc_value) < MaxEncValue
    /\ LET btn_state == IF btn_first = 0 THEN 1 ELSE 0
           edge == last_clk_state # clk
           value == IF ~edge THEN enc_value
                    ELSE IF dt = 1 THEN enc_value + 1 ELSE enc_value - 1
           btn_new == IF btn_again = 0 THEN 1 ELSE 0
           confirmed == btn_state # last_button_state /\ btn_new # last_button_state
       IN  /\ enc_value' = value
           /\ enc_sent' =
                 (IF edge THEN << EncoderEvent(value, btn_state) >> ELSE << >>)
                 \o (IF confirmed THEN << EncoderEvent(value, btn_new) >> ELSE << >>)
           /\ last_button_state' = IF confirmed THEN btn_new ELSE last_button_state
           /\ last_clk_state' = clk
    /\ UNCHANGED << gyroVars, airVars, calVars, netVars, mainVars >>

\* One pass of the polling loop: the reads of CLK, DT and the button, the
\* second read of DT on a falling edge of CLK, the second read of the button
\* when it differs from the state last reported.
EncoderPoll(clk, dt_first, dt, btn_first, btn_again) ==
    /\ Abs(enc_value) < MaxEncValue
    /\ LET btn_state == IF btn_first = 0 THEN 1 ELSE 0
           edge == last_clk_state = 1 /\ clk = 0
           value == IF ~edge THEN enc_value
                    ELSE IF dt = 1 THEN enc_value + 1 ELSE enc_value - 1
           btn_new == IF btn_again = 0 THEN 1 ELSE 0
           confirmed == btn_state # last_button_state /\ btn_new # last_button_state
       IN  /\ enc_value' = value
           /\ enc_sent' =
                 (IF edge THEN << EncoderEvent(value, btn_state) >> ELSE << >>)
                 \o (IF confirmed THEN << EncoderEvent(value, btn_new) >> ELSE << >>)
           /\ last_button_state' = IF confirmed THEN btn_new ELSE last_button_state
           /\ last_clk_state' = clk
    /\ UNCHANGED << gyroVars, airVars, calVars, netVars, mainVars >>

NextEncoder ==
    \E clk \in Levels, dt_first \in Levels, dt \in Levels,
       btn_first \in Levels, btn_again \in Levels :
          EncoderPoll(clk, dt_first, dt, btn_first, btn_again)

SpecEncoder == InitEncoder /\ [][NextEncoder]_vars

\* ================================ app_main's homing calls during startup
\* app_main has created the receiver task and is in its 100 ms delay; the
\* two homing calls motor_move_to(0, 0, 0, 360) and motor_move_to(1, 0, 0, 360)
\* are still to come. No lock is taken anywhere in motor_move_to, and the
\* receiver task (priority 3, no core affinity) runs whenever a datagram
\* has arrived, so the steps of the two tasks interleave.
InitStartup ==
    /\ GyroInit
    /\ AirInit
    /\ CalIdle
    /\ NetInit
    /\ main_pc = "home0"
    /\ main_mv = NoFrame
    /\ EncInit

MainInMove == main_pc \in {"check", "stop", "clear", "write", "reset", "start"}

\* Entry of app_main's motor_move_to(m, 0, 0, 360) up to the "already at
\* target" test.
MainHome(m) ==
    /\ main_pc = (IF m = 0 THEN "home0" ELSE "home1")
    /\ LET ret == IF m = 0 THEN "home1" ELSE "done"
           f == PlanMove("HOME", m, current_position_steps[m], 0, 0, FULL_CIRCLE, ret)
       IN  /\ last_target' = [last_target EXCEPT ![m] = f.target_norm]
           /\ IF f.diff = 0
              THEN /\ main_pc' = ret
                   /\ main_mv' = NoFrame
              ELSE /\ main_pc' = "check"
                   /\ main_mv' = f
    /\ UNCHANGED << motorVars, heading_bug_target, current_compass_heading, pc,
                    mv, ncmds, airVars, calVars, netVars, encVars >>

MainCheckActive ==
    /\ main_pc = "check"
    /\ IF motor_state[main_mv.motor_id].active
       THEN /\ main_pc' = "stop"
            /\ main_mv' = [main_mv EXCEPT !.was_active = TRUE]
       ELSE /\ main_pc' = "write"
            /\ main_mv' = main_mv
    /\ UNCHANGED << gyroVars, airVars, calVars, netVars, encVars >>

MainStopTimer ==
    /\ main_pc = "stop"
    /\ timer_running' = [timer_running EXCEPT ![main_mv.motor_id] = FALSE]
    /\ main_pc' = "clear"
    /\ UNCHANGED << current_position_steps, seq_idx, motor_state, coils,
                    heading_bug_target, current_compass_heading, pc, mv,
                    last_target, ncmds, main_mv, airVars, calVars, netVars, encVars >>

MainClearActive ==
    /\ main_pc = "clear"
    /\ motor_state' = [motor_state EXCEPT ![main_mv.motor_id].active = FALSE]
    /\ main_pc' = "write"
    /\ UNCHANGED << current_position_steps, seq_idx, timer_running, coils,
                    heading_bug_target, current_compass_heading, pc, mv,
                    last_target, ncmds, main_mv, airVars, calVars, netVars, encVars >>

MainWritePlan ==
    /\ main_pc = "write"
    /\ motor_state' =
           [motor_state EXCEPT ![main_mv.motor_id] = InstalledState(@, main_mv)]
    /\ main_pc' = "reset"
    /\ UNCHANGED << current_position_steps, seq_idx, timer_running, coils,
                    heading_bug_target, current_compass_heading, pc, mv,
                    last_target, ncmds, main_mv, airVars, calVars, netVars, encVars >>

MainResetCount ==
    /\ main_pc = "reset"
    /\ main_pc' = "start"
    /\ UNCHANGED << gyroVars, main_mv, airVars, calVars, netVars, encVars >>

MainStartTimer ==
    /\ main_pc = "start"
    /\ timer_running' = [timer_running EXCEPT ![main_mv.motor_id] = TRUE]
    /\ main_pc' = main_mv.ret
    /\ main_mv' = NoFrame
    /\ UNCHANGED << current_position_steps, seq_idx, motor_state, coils,
                    heading_bug_target, current_compass_heading, pc, mv,
                    last_target, ncmds, airVars, calVars, netVars, encVars >>

\* Datagrams that take a needle a degree or more off 0.
StartDatagrams == {Dg("ANGLE", <<F(m), F(2)>>) : m \in Motors}

StartRecv == \E d \in StartDatagrams : Receive(d)

NextStartup ==
    \/ StartRecv
    \/ CheckActive
    \/ StopTimer
    \/ ClearActive
    \/ WritePlan
    \/ ResetCount
    \/ StartTimer
    \/ Tick
    \/ \E m \in Motors : MainHome(m)
    \/ MainCheckActive
    \/ MainStopTimer
    \/ MainClearActive
    \/ MainWritePlan
    \/ MainResetCount
    \/ MainStartTimer

SpecStartup == InitStartup /\ [][NextStartup]_vars

\* ========================================= the alarm callback on its own
\* Step counts and steps left that an alarm finds.
MaxTickPos == 1
MaxTickSteps == 2

\* What motor_state[m] can hold when an alarm of m's timer is served: the
\* zero-initialised struct, or the fields of a plan with the flag either way
\* and any number of steps left.
TickStates(m) ==
    {IdleMotor} \cup
    { [motor_id |-> m, target_angle |-> 0, steps_remaining |-> n,
       direction |-> d, active |-> a] :
          n \in 0..MaxTickSteps, d \in {1, -1}, a \in BOOLEAN }

\* The coil outputs before the alarm: as motor_init left them, or a row.
TickCoils == {CoilsOff, SEQUENCE_FULL[1]}

\* The dual-motor firmware with an alarm of each timer pending and no
\* datagram being handled.
InitTickGyro ==
    /\ \E p \in (-MaxTickPos)..MaxTickPos :
          current_position_steps = [m \in Motors |-> IF m = 0 THEN p ELSE -p]
    /\ seq_idx \in [Motors -> 0..(SEQ_LEN - 1)]
    /\ motor_state \in {f \in [Motors -> UNION {TickStates(m) : m \in Motors}] :
                           \A m \in Motors : f[m] \in TickStates(m)}
    /\ timer_running = [m \in Motors |-> TRUE]
    /\ coils \in [Motors -> TickCoils]
    /\ heading_bug_target = 0
    /\ current_compass_heading = 0
    /\ pc = "recv"
    /\ mv = NoFrame
    /\ last_target = [m \in Motors |-> 0]
    /\ ncmds = 0
    /\ AirInit

\* The single-motor firmware in the same situation.
InitTickAir ==
    /\ air_current_position = 0
    /\ air_seq_idx \in 0..(SEQ_LEN - 1)
    /\ air_motor_state \in
          {AirIdleMotor} \cup
          { [target_angle |-> 1, steps_remaining |-> n, direction |-> d,
             active |-> a] :
                n \in 0..MaxTickSteps, d \in {1, -1}, a \in BOOLEAN }
    /\ air_timer_running = TRUE
    /\ air_coils \in TickCoils
    /\ air_shaft = 0
    /\ air_pc = "recv"
    /\ air_mv = AirNoFrame
    /\ air_ncmds = 0
    /\ GyroInit

InitTick == (InitTickGyro \/ InitTickAir) /\ CalIdle /\ NetInit /\ MainDone /\ EncInit

NextTick ==
    \/ Tick
    \/ air_motor_timer_callback

SpecTick == InitTick /\ [][NextTick]_vars

\* Each motor at rest or with a plan just installed and its timer started,
\* and no datagram being handled from here on.
InstalledStates(m) ==
    {IdleMotor} \cup
    { [motor_id |-> m, target_angle |-> 0, steps_remaining |-> n,
       direction |-> d, active |-> TRUE] : n \in 1..MaxTickSteps, d \in {1, -1} }

InitInstalled ==
    /\ \E p \in (-MaxTickPos)..MaxTickPos :
          current_position_steps = [m \in Motors |-> IF m = 0 THEN p ELSE -p]
    /\ seq_idx = [m \in Motors |-> IF m = 0 THEN (-current_position_steps[m]) % SEQ_LEN
                                  ELSE current_position_steps[m] % SEQ_LEN]
    /\ motor_state \in {f \in [Motors -> UNION {InstalledStates(m) : m \in Motors}] :
                           \A m \in Motors : f[m] \in InstalledStates(m)}
    /\ timer_running = [m \in Motors |-> motor_state[m].active]
    /\ coils = [m \in Motors |-> CoilsOff]
    /\ heading_bug_target = 0
    /\ current_compass_heading = 0
    /\ pc = "recv"
    /\ mv = NoFrame
    /\ last_target = [m \in Motors |-> 0]
    /\ ncmds = 0
    /\ AirInit
    /\ CalIdle
    /\ NetInit /\ MainDone /\ EncInit

\* A started timer reloads on every alarm (auto_reload_on_alarm) and raises
\* the next one a period later; the alarm is served in interrupt context,
\* ahead of every task.
SpecRunOut ==
    /\ InitInstalled
    /\ [][Tick]_vars
    /\ \A m \in Motors : WF_vars(motor_timer_callback(m))

\* ================================================== heartbeat and log tasks
\* if (heartbeat_count % 6 == 0)
LOG_EVERY == 6

\* What a write to log_socket reaches: the connected peer ("client"), a peer
\* that has gone away unnoticed ("gone"), the socket after recv has reported
\* the loss ("detected"), or the descriptor after close ("closed").
SocketStatus ==
    IF log_pc = "clear" THEN "closed"
    ELSE IF log_pc \in {"lost", "close"} THEN "detected"
    ELSE IF conn[log_socket] = "gone" THEN "gone"
    ELSE "client"

\* wifi_log_vprintf: one log line, sent to log_socket when it is set.
WifiLog == log_dest' = IF log_socket >= 0 THEN SocketStatus ELSE log_dest

\* esp_task_wdt_add; vTaskDelay(2000)
HbStart ==
    /\ hb_pc = "start"
    /\ hb_pc' = "socket"
    /\ UNCHANGED << hb_ret, heartbeat_count, logVars, gyroVars, airVars, calVars, mainVars, encVars >>

\* socket(): the loop is entered, or the task deletes itself.
HbSocket ==
    /\ hb_pc = "socket"
    /\ \E created \in BOOLEAN : hb_pc' = IF created THEN "loop" ELSE "deleted"
    /\ WifiLog
    /\ UNCHANGED << hb_ret, heartbeat_count, log_pc, log_socket, conn,
                    gyroVars, airVars, calVars, mainVars, encVars >>

\* The heartbeat task going on to its delay although the send failed is the
\* code; this is the loop sending again at once after a failure.
HbSendto_RetryNow ==
    /\ hb_pc = "loop"
    /\ \E sent \in BOOLEAN :
          /\ hb_ret' = IF sent THEN "ok" ELSE "failed"
          /\ heartbeat_count' =
                 IF sent THEN (heartbeat_count + 1) % LOG_EVERY ELSE heartbeat_count
          /\ IF ~sent \/ heartbeat_count' = 0 THEN WifiLog ELSE UNCHANGED log_dest
          /\ hb_pc' = IF sent THEN "delay" ELSE "loop"
    /\ UNCHANGED << log_pc, log_socket, conn, gyroVars, airVars, calVars, mainVars, encVars >>

\* One pass of the loop body: sendto, the warning or the count, and on to
\* the delay.
HbSendto ==
    /\ hb_pc = "loop"
    /\ \E sent \in BOOLEAN :
          /\ hb_ret' = IF sent THEN "ok" ELSE "failed"
          /\ heartbeat_count' =
                 IF sent THEN (heartbeat_count + 1) % LOG_EVERY ELSE heartbeat_count
          /\ IF ~sent \/ heartbeat_count' = 0 THEN WifiLog ELSE UNCHANGED log_dest
    /\ hb_pc' = "delay"
    /\ UNCHANGED << log_pc, log_socket, conn, gyroVars, airVars, calVars, mainVars, encVars >>

\* The delay waiting for the receiver task to be back in recvfrom.
HbDelay_WhenIdle ==
    /\ hb_pc = "delay"
    /\ pc = "recv"
    /\ hb_pc' = "loop"
    /\ UNCHANGED << hb_ret, heartbeat_count, logVars, gyroVars, airVars, calVars, mainVars, encVars >>

\* vTaskDelay(HEARTBEAT_INTERVAL) returns.
HbDelay ==
    /\ hb_pc = "delay"
    /\ hb_pc' = "loop"
    /\ UNCHANGED << hb_ret, heartbeat_count, logVars, gyroVars, airVars, calVars, mainVars, encVars >>

HeartbeatStep == HbStart \/ HbSocket \/ HbSendto \/ HbDelay

\* The strncmp chain of the receiver task.
Dispatch(d) ==
    CASE d.prefix = "VALUE" -> HandleValue(d)
      [] d.prefix = "ANGLE" -> HandleAngle(d)
      [] d.prefix = "MOVE" -> HandleMove(d)
      [] d.prefix = "ZERO" -> HandleZero(d)
      [] OTHER -> HandleUnknown(d)

\* recvfrom returns d, "Received: ..." is logged, and the branch is taken;
\* datagrams are not counted here: the task receives for ever.
NetReceive(d) ==
    /\ pc = "recv"
    /\ Dispatch(d)
    /\ WifiLog
    /\ UNCHANGED << ncmds, hbVars, log_pc, log_socket, conn, airVars, calVars, mainVars, encVars >>

\* The datagrams arriving while the network tasks run.
NetDatagrams == {Dg("ANGLE", <<F(0), F(1)>>), Dg("PING", << >>)}

NetRecv == \E d \in NetDatagrams : NetReceive(d)

NextHeart ==
    \/ NetRecv
    \/ CheckActive
    \/ StopTimer
    \/ ClearActive
    \/ WritePlan
    \/ ResetCount
    \/ StartTimer
    \/ Tick
    \/ HbStart
    \/ HbSocket
    \/ HbSendto
    \/ HbDelay

\* The heartbeat task has the highest priority of the tasks created
\* (xTaskCreate(..., 5, ...)), so it runs whenever it is ready.
SpecHeart == Init /\ [][NextHeart]_vars /\ WF_vars(HeartbeatStep)

\* ------------------------------------------------------ wifi_logging_task
\* socket(), bind(), listen(): the server listens, or the task deletes itself.
LogListen ==
    /\ log_pc = "socket"
    /\ \E listening \in BOOLEAN : log_pc' = IF listening THEN "accept" ELSE "deleted"
    /\ WifiLog
    /\ UNCHANGED << log_socket, conn, hbVars, gyroVars, airVars, calVars, mainVars, encVars >>

\* A peer connects to the log port and waits in the listen queue.
PeerConnects(c) ==
    /\ conn[c] = "away"
    /\ log_pc \notin {"socket", "deleted"}
    /\ conn' = [conn EXCEPT ![c] = "queued"]
    /\ UNCHANGED << log_pc, log_socket, log_dest, hbVars, gyroVars, airVars, calVars, mainVars, encVars >>

\* The connected peer closes or is lost.
PeerLost(c) ==
    /\ conn[c] = "accepted"
    /\ conn' = [conn EXCEPT ![c] = "gone"]
    /\ UNCHANGED << log_pc, log_socket, log_dest, hbVars, gyroVars, airVars, calVars, mainVars, encVars >>

\* accept() returns the socket of a queued peer.
LogAccept(c) ==
    /\ log_pc = "accept"
    /\ conn[c] = "queued"
    /\ conn' = [conn EXCEPT ![c] = "accepted"]
    /\ log_socket' = log_socket
    /\ log_pc' = "store"
    /\ UNCHANGED << log_dest, hbVars, gyroVars, airVars, calVars, mainVars, encVars >>

\* log_socket = client_socket; "client connected" is logged (to that client).
LogStore ==
    /\ log_pc = "store"
    /\ \E c \in Clients :
          /\ conn[c] \in {"accepted", "gone"}
          /\ log_socket' = c
          /\ log_dest' = IF conn[c] = "gone" THEN "gone" ELSE "client"
    /\ log_pc' = "recv"
    /\ UNCHANGED << conn, hbVars, gyroVars, airVars, calVars, mainVars, encVars >>

\* recv() returns 0 or an error: the inner loop ends.
LogRecvEnds ==
    /\ log_pc = "recv"
    /\ conn[log_socket] = "gone"
    /\ log_pc' = "lost"
    /\ UNCHANGED << log_socket, conn, log_dest, hbVars, gyroVars, airVars, calVars, mainVars, encVars >>

\* "client disconnected" is logged, log_socket still being the client's.
LogLost ==
    /\ log_pc = "lost"
    /\ WifiLog
    /\ log_pc' = "close"
    /\ UNCHANGED << log_socket, conn, hbVars, gyroVars, airVars, calVars, mainVars, encVars >>

\* close(client_socket)
LogClose ==
    /\ log_pc = "close"
    /\ conn' = [conn EXCEPT ![log_socket] = "away"]
    /\ log_pc' = "clear"
    /\ UNCHANGED << log_socket, log_dest, hbVars, gyroVars, airVars, calVars, mainVars, encVars >>

\* log_socket = -1, and back to accept().
LogClear ==
    /\ log_pc = "clear"
    /\ log_socket' = -1
    /\ log_pc' = "accept"
    /\ UNCHANGED << conn, log_dest, hbVars, gyroVars, airVars, calVars, mainVars, encVars >>

NextLog ==
    \/ LogListen
    \/ \E c \in Clients : PeerConnects(c)
    \/ \E c \in Clients : PeerLost(c)
    \/ \E c \in Clients : LogAccept(c)
    \/ LogStore
    \/ LogRecvEnds
    \/ LogLost
    \/ LogClose
    \/ LogClear
    \/ NetRecv
    \/ CheckActive
    \/ StopTimer
    \/ ClearActive
    \/ WritePlan
    \/ ResetCount
    \/ StartTimer
    \/ Tick

SpecLog == Init /\ [][NextLog]_vars

\* ============================================ the calibration functions
\* Attitude indicator, motor 0: roll -180..180.
calibration_motor0 ==
    << Pt(-180, 0), Pt(-135, 45), Pt(-90, 90), Pt(-45, 135), Pt(0, 180),
       Pt(45, 225), Pt(90, 270), Pt(135, 315), Pt(180, 360) >>

\* Attitude indicator, motor 1: pitch -90..90.
calibration_motor1 ==
    << Pt(-90, 0), Pt(-70, 40), Pt(-50, 80), Pt(-25, 130), Pt(0, 180),
       Pt(25, 230), Pt(50, 280), Pt(70, 320), Pt(90, 360) >>

att_value_to_angle(motor_id, value) ==
    TableLookup(IF motor_id = 0 THEN calibration_motor0 ELSE calibration_motor1,
                value)

\* Turn coordinator: -3..3 degrees per second.
turn_calibration ==
    << Pt(-3, 0), Pt(-2, 60), Pt(-1, 120), Pt(0, 180), Pt(1, 240),
       Pt(2, 300), Pt(3, 360) >>

turn_value_to_angle(value) == TableLookup(turn_calibration, value)

\* Values converted: -MaxCalValue..MaxCalValue, beyond both ends of every table.
MaxCalValue == 400

CalValues == (-MaxCalValue)..MaxCalValue

\* One call of one firmware's value_to_angle, on a drawn value.
InitCal ==
    /\ GyroInit
    /\ AirInit
    /\ NetInit /\ MainDone /\ EncInit
    /\ cal_instrument \in {"airspeed", "gyro", "attitude", "turn"}
    /\ cal_motor_id \in (IF cal_instrument = "attitude" THEN Motors ELSE {0})
    /\ cal_value \in CalValues
    /\ cal_angle = 0
    /\ cal_pc = "call"

Returned(angle) ==
    /\ cal_pc = "call"
    /\ cal_angle' = angle
    /\ cal_pc' = "returned"
    /\ UNCHANGED << gyroVars, airVars, netVars, mainVars, encVars, cal_instrument, cal_motor_id, cal_value >>

ConvertAirspeed ==
    cal_instrument = "airspeed" /\ Returned(air_value_to_angle(cal_value))

ConvertGyro ==
    cal_instrument = "gyro" /\ Returned(value_to_angle(cal_value))

ConvertAttitude ==
    cal_instrument = "attitude"
        /\ Returned(att_value_to_angle(cal_motor_id, cal_value))

ConvertTurn ==
    cal_instrument = "turn" /\ Returned(turn_value_to_angle(cal_value))

NextCal ==
    \/ ConvertAirspeed
    \/ ConvertGyro
    \/ ConvertAttitude
    \/ ConvertTurn

SpecCal == InitCal /\ [][NextCal]_vars

\* The table the called function reads.
CalTable ==
    CASE cal_instrument = "airspeed" -> air_calibration
      [] cal_instrument = "gyro" -> calibration
      [] cal_instrument = "attitude" ->
             (IF cal_motor_id = 0 THEN calibration_motor0 ELSE calibration_motor1)
      [] OTHER -> turn_calibration

\* ================================== vertical speed table on the planner
\* Vertical speed indicator: feet per minute -> degrees, sweeping across 0/360.
vsi_calibration ==
    << Pt(-2000, 95), Pt(-1000, 182), Pt(0, 270), Pt(1000, 358), Pt(2000, 85) >>

vsi_value_to_angle(value) == TableLookup(vsi_calibration, value)

VsiValues == {-2000, 2000}

\* VALUE on a one-table instrument: the angle of the value, then
\* motor_move_to over 0..360; here into the shortest-path planner, motor 0.
VsiReceive(value) ==
    /\ UNCHANGED << airVars, calVars, netVars, mainVars, encVars >>
    /\ pc = "recv"
    /\ ncmds < MaxCmds
    /\ ncmds' = ncmds + 1
    /\ BeginMove("VALUE", 0, vsi_value_to_angle(value), 0, FULL_CIRCLE, "recv")
    /\ UNCHANGED << motorVars, heading_bug_target, current_compass_heading >>

\* The sender waits for the needle to settle before the next value.
VsiRecv == ~motor_state[0].active /\ \E v \in VsiValues : VsiReceive(v)

NextVsi ==
    \/ VsiRecv
    \/ CheckActive
    \/ WritePlan
    \/ ResetCount
    \/ StartTimer
    \/ Tick

SpecVsi == Init /\ [][NextVsi]_vars

\* ================================================================ claims
Max(a, b) == IF a >= b THEN a ELSE b
Min(a, b) == IF a <= b THEN a ELSE b

\* The angle the firmware takes a step count to display, in 0..359.
DisplayedAngle(steps) == NormalizeAngle(StepsToAngle(steps))

\* The receiver is inside motor_move_to, past the "already at target" test.
InMove == pc \in {"check", "stop", "clear", "write", "reset", "start"}

\* The plan fields of motor_state[mv.motor_id] have been stored.
PlanStored == pc \in {"reset", "start"}

\* C1: the plan motor_move_to installs goes the short way round: its signed
\* delta is at most 180 degrees in size and congruent to target - current
\* modulo 360, it has at most 1024 steps, and its direction is the delta's
\* sign; from a displayed 10 degrees to 350 degrees the delta is -20.
C1_ShortestPath ==
    PlanStored =>
        LET m == mv.motor_id
            cur == DisplayedAngle(current_position_steps[m])
            tgt == motor_state[m].target_angle
        IN  /\ Abs(mv.diff) <= 180
            /\ (mv.diff - (tgt - cur)) % 360 = 0
            /\ motor_state[m].steps_remaining <= 1024
            /\ motor_state[m].direction = (IF mv.diff > 0 THEN 1 ELSE -1)
            /\ (cur = 10 /\ tgt = 350) =>
                   (mv.diff = -20 /\ motor_state[m].direction = -1)

C1_Witness ==
    /\ PlanStored
    /\ DisplayedAngle(current_position_steps[mv.motor_id]) = 10
    /\ motor_state[mv.motor_id].target_angle = 350
    /\ motor_state[mv.motor_id].direction = -1
    /\ motor_state[mv.motor_id].steps_remaining = 113

\* C2: a move command received while the needle is stepping is planned from
\* the angle the needle has reached by then (stated of the single-motor
\* firmware, whose planner reads current_position).
C2_PreemptFromReached ==
    [][(air_pc = "recv" /\ air_pc' = "check" /\ air_motor_state.active)
          => air_mv'.current = StepsToAngle(air_shaft)]_vars

\* C3: with only move commands received, once the receiver is back in
\* recvfrom and motor m has stopped, m displays the normalized target of the
\* last move command for m.
C3_ConvergesOnLatest ==
    \A m \in Motors :
        (pc = "recv" /\ ~motor_state[m].active /\ ~timer_running[m])
            => DisplayedAngle(current_position_steps[m]) = last_target[m]

\* C4: from the store of active = false to the last store of the new plan,
\* and until gptimer_start, the motor's timer is not running.
C4_StopBeforeMutate ==
    pc \in {"clear", "write", "reset", "start"} => ~timer_running[mv.motor_id]

C4_Witness ==
    /\ pc = "write"
    /\ mv.was_active
    /\ motor_state[mv.motor_id].steps_remaining > 0
    /\ ~timer_running[mv.motor_id]

\* C5: the step count motor_move_to planned from is the motor's step count
\* while the plan is installed and when its timer is restarted.
C5_PlanFromTrueSteps ==
    pc \in {"clear", "write", "reset", "start"}
        => mv.pos_read = current_position_steps[mv.motor_id]

\* C6: once the plan is stored, steps_remaining and direction are exactly the
\* new plan's, whatever the replaced plan had left.
C6_FullReplacement ==
    PlanStored =>
        /\ motor_state[mv.motor_id].steps_remaining = mv.steps
        /\ motor_state[mv.motor_id].direction = mv.direction
        /\ motor_state[mv.motor_id].active

C6_Witness ==
    /\ PlanStored
    /\ mv.was_active
    /\ mv.direction = -1
    /\ motor_state[mv.motor_id].steps_remaining = mv.steps
    /\ current_position_steps[mv.motor_id] > 0

\* No field of the datagram converts, or its prefix is none of the four.
Malformed(d) ==
    \/ d.prefix \notin {"VALUE", "ANGLE", "MOVE", "ZERO"}
    \/ Scanned(d.fields, 1) = 0

\* C7: receiving a malformed datagram changes no motor's position, phase,
\* plan or timer, and does not enter the planner.
C7_MalformedDropped ==
    [][\A d \in Datagrams :
          (Malformed(d) /\ Receive(d)) => (UNCHANGED motorVars /\ pc' # "check")]_vars

\* The datagram carries a motor id and it is not 0, the only motor there is.
NamesOtherMotor(d) ==
    \/ d.prefix \in {"VALUE", "ANGLE"} /\ Scanned(d.fields, 2) = 2 /\ d.fields[1].v # 0
    \/ d.prefix \in {"MOVE", "ZERO"} /\ Scanned(d.fields, 1) = 1 /\ d.fields[1].v # 0

\* C8: on the single-motor device a datagram naming another motor is dropped:
\* the receiver stays in recvfrom and the motor's state is unchanged.
C8_UnknownMotorDropped ==
    [][\A d \in AirDatagrams :
          (NamesOtherMotor(d) /\ AirReceive(d))
              => (UNCHANGED airMotorVars /\ air_pc' = "recv")]_vars

\* C9: when ZERO for motor m has been handled, m is at step 0 and phase 0
\* and its timer is not running, so no step follows the ZERO.
C9_ZeroWithoutMotion ==
    [][(pc = "zero_seq" /\ pc' = "recv")
          => /\ current_position_steps'[mv.motor_id] = 0
             /\ seq_idx'[mv.motor_id] = 0
             /\ ~timer_running'[mv.motor_id]]_vars

\* C10: the planner's target is the requested angle clamped into
\* [min, max] when min <= max; the VALUE and ANGLE handlers pass [0, 360];
\* and MOVE:0:400:0:360 plans toward 360.
C10_ClampedTarget ==
    InMove =>
        /\ mv.min_angle <= mv.max_angle =>
               mv.target_angle = Max(mv.min_angle, Min(mv.requested, mv.max_angle))
        /\ mv.caller \in {"VALUE", "ANGLE"} =>
               (mv.min_angle = 0 /\ mv.max_angle = 360)
        /\ (mv.caller = "MOVE" /\ mv.motor_id = 0 /\ mv.requested = 400
                /\ mv.min_angle = 0 /\ mv.max_angle = 360) =>
               mv.target_angle = 360

C10_Witness ==
    /\ PlanStored
    /\ mv.caller = "MOVE"
    /\ mv.motor_id = 0
    /\ mv.requested = 400
    /\ mv.min_angle = 0
    /\ mv.max_angle = 360
    /\ mv.target_angle = 360
    /\ mv.target_norm = 0
    /\ mv.diff # 0

\* The value the table is searched with: the gyro compass reduces the
\* heading into 0..359 first, the other instruments take it as it is.
Searched == IF cal_instrument = "gyro" THEN cal_value % FULL_CIRCLE ELSE cal_value

First == CalTable[1]
Last == CalTable[Len(CalTable)]

RoundDiv(n, d) == (2 * n + d) \div (2 * d)

\* C14: a value strictly between two consecutive breakpoints gives the
\* interpolated angle rounded to the nearest degree.
C14_RoundsToNearest ==
    cal_pc = "returned" =>
        \A i \in 1..(Len(CalTable) - 1) :
            LET p == CalTable[i]
                q == CalTable[i + 1]
            IN  (p.value < Searched /\ Searched < q.value) =>
                    cal_angle =
                        RoundDiv(p.angle * (q.value - p.value)
                                     + (Searched - p.value) * (q.angle - p.angle),
                                 q.value - p.value)

\* C15: a stored plan has the step count of its delta rounded to the nearest
\* step, and the direction of the delta's sign.
C15_StepsRounded ==
    PlanStored =>
        /\ mv.diff # 0
        /\ motor_state[mv.motor_id].steps_remaining =
               RoundDiv(Abs(mv.diff) * STEPS_PER_REV, FULL_CIRCLE)
        /\ motor_state[mv.motor_id].direction = (IF mv.diff > 0 THEN 1 ELSE -1)

\* C16: from a zeroed motor, once the move for VALUE:2000 (85 degrees) has
\* run to its end, the plan stored for VALUE:-2000 (95 degrees) is +10
\* degrees: direction +1 and the step count of a 10-degree delta.
C16_ScenarioB ==
    (/\ PlanStored
     /\ mv.requested = vsi_value_to_angle(-2000)
     /\ mv.pos_read = StepsFor(vsi_value_to_angle(2000)))
        => /\ mv.diff = 10
           /\ motor_state[0].direction = 1
           /\ motor_state[0].steps_remaining = StepsFor(10)

C18_Stated == [][(pc = "bug") => (pc' # "check")]_vars

\* C18: one datagram gives one call of motor_move_to or one ZERO, except
\* VALUE for motor 0, which gives a second call: the bug update is reached
\* only from the VALUE call for motor 0, it calls only for motor 1 and only
\* with heading_bug_target >= 0, and that call returns to recvfrom.
C18_AtMostTwoCalls ==
    [][/\ (pc = "bug" /\ pc' # "bug") =>
              /\ pc' \in {"recv", "check"}
              /\ pc' = "check" =>
                     (mv'.motor_id = 1 /\ mv'.ret = "recv" /\ heading_bug_target >= 0)
       /\ (pc # "bug" /\ pc' = "bug") =>
              \/ pc = "recv" /\ ncmds' # ncmds
              \/ InMove /\ mv.ret = "bug" /\ mv.motor_id = 0 /\ mv.caller = "VALUE"
       /\ (pc = "recv" /\ pc' # "recv") =>
              /\ ncmds' = ncmds + 1
              /\ pc' \in {"check", "bug", "zero_seq"}
              /\ (pc' = "check" /\ mv'.ret = "bug") =>
                     (mv'.motor_id = 0 /\ mv'.caller = "VALUE")]_vars

\* The only datagram so far was VALUE for motor 0 (heading 1), and
\* motor_move_to has been entered for motor 1.
C18_Witness ==
    /\ ncmds = 1
    /\ current_compass_heading = 1
    /\ heading_bug_target = 0
    /\ pc = "check"
    /\ mv.motor_id = 1
    /\ mv.requested = 359

\* C19: when the ZERO branch for motor 0 returns to recvfrom, so that the next
\* command is handled from there, current_position_steps[0] is 0 and every
\* VALUE for motor 0 gets the plan it gets from position 0.
C19_IdempotentFromZero ==
    [][(pc = "zero_seq" /\ mv.motor_id = 0 /\ pc' = "recv") =>
          /\ current_position_steps'[0] = 0
          /\ \A v \in Values :
                LET here == PlanMove("VALUE", 0, current_position_steps'[0],
                                     value_to_angle(v), 0, FULL_CIRCLE, "bug")
                    zero == PlanMove("VALUE", 0, 0,
                                     value_to_angle(v), 0, FULL_CIRCLE, "bug")
                IN  here.steps = zero.steps /\ here.direction = zero.direction]_vars

\* C20: current_position_steps and seq_idx change only in steps of the timer
\* callback, that is, in steps that leave the receiver task where it is.
C20_TimerSoleWriter ==
    [][(current_position_steps' # current_position_steps \/ seq_idx' # seq_idx) =>
          (pc' = pc /\ mv' = mv /\ ncmds' = ncmds)]_vars

\* C21 as stated: motor_state changes only in steps of the receiver task.
C21_Stated == [][(motor_state' # motor_state) => (pc' # pc)]_vars

\* C21: a step that leaves the receiver task where it is (a timer callback)
\* never changes a motor's target_angle, direction or motor_id; of the plan
\* fields it only lowers steps_remaining by one and clears active.
C21_ForegroundWritesPlan ==
    [][(pc' = pc /\ ncmds' = ncmds) =>
          \A m \in Motors :
             /\ motor_state'[m].target_angle = motor_state[m].target_angle
             /\ motor_state'[m].direction = motor_state[m].direction
             /\ motor_state'[m].motor_id = motor_state[m].motor_id
             /\ motor_state'[m].steps_remaining \in
                    {motor_state[m].steps_remaining, motor_state[m].steps_remaining - 1}
             /\ (motor_state'[m].active => motor_state[m].active)]_vars

\* A plan run to its end by the callback: idle again, away from 0.
C21_Witness ==
    /\ ~motor_state[0].active
    /\ motor_state[0].steps_remaining = 0
    /\ motor_state[0].direction # 0
    /\ current_position_steps[0] # 0
    /\ pc = "recv"

\* The motor and the number a VALUE or ANGLE datagram names, by its form:
\* <n>, <m>:<n>, or <n>:<unparsable>.
FormOk(d) == Len(d.fields) >= 1 /\ d.fields[1].ok
TwoNumbers(d) == Len(d.fields) >= 2 /\ d.fields[1].ok /\ d.fields[2].ok
NamedMotor(d) == IF TwoNumbers(d) THEN d.fields[1].v ELSE 0
NamedNumber(d) == IF TwoNumbers(d) THEN d.fields[2].v ELSE d.fields[1].v

NumberedDatagrams ==
    {d \in Datagrams : d.prefix \in {"VALUE", "ANGLE"} /\ FormOk(d)}

\* C22: a VALUE or ANGLE datagram whose first field parses calls
\* motor_move_to for motor 0 with its only (or first) number when it has one
\* number, and for the motor of its first field with its second number when
\* it has two; VALUE stores the number as the heading (motor 0) or as the bug
\* target (motor 1) and requests the angle derived from it.
C22_MotorSelection ==
    [][(pc = "recv" /\ ncmds' # ncmds) =>
       \A d \in NumberedDatagrams :
          Receive(d) =>
             LET m == NamedMotor(d)
                 n == NamedNumber(d)
                 angle == IF d.prefix = "ANGLE" THEN n
                          ELSE IF m = 0 THEN value_to_angle(n)
                          ELSE BugAngle(n, current_compass_heading)
             IN  /\ last_target' =
                       [last_target EXCEPT
                           ![m] = NormalizeAngle(ClampTarget(angle, 0, FULL_CIRCLE))]
                 /\ (pc' = "check") =>
                        (mv'.motor_id = m /\ mv'.requested = angle
                         /\ mv'.caller = d.prefix)
                 /\ (d.prefix = "VALUE" /\ m = 0) => current_compass_heading' = n
                 /\ (d.prefix = "VALUE" /\ m # 0) => heading_bug_target' = n
                 /\ \A o \in Motors \ {m} : motor_state'[o] = motor_state[o]]_vars

\* The datagram was ANGLE with the single number 1 (ANGLE:1, ANGLE:0:1 or
\* ANGLE:1:<unparsable>): motor 0 is being planned from 0 to 1.
C22_Witness ==
    /\ mv.pos_read = 0
    /\ pc = "check"
    /\ mv.caller = "ANGLE"
    /\ mv.motor_id = 0
    /\ mv.requested = 1

\* Field k of a datagram, when it and every field before it is present and
\* converts; the default otherwise.
FieldOr(d, k, default) ==
    IF \A j \in 1..k : j <= Len(d.fields) /\ d.fields[j].ok
    THEN d.fields[k].v
    ELSE default

MoveForms == {d \in Datagrams : d.prefix = "MOVE"}

\* C23: a MOVE datagram calls motor_move_to with the fields that converted,
\* up to the first absent or unparsable one, and the defaults motor 0, angle 0,
\* min 0, max 360 for that field and every field after it.
C23_MoveDefaults ==
    [][(pc = "recv" /\ ncmds' # ncmds) =>
       \A d \in MoveForms :
          Receive(d) =>
             LET m == FieldOr(d, 1, 0)
                 angle == FieldOr(d, 2, 0)
                 lo == FieldOr(d, 3, 0)
                 hi == FieldOr(d, 4, FULL_CIRCLE)
             IN  /\ last_target' =
                       [last_target EXCEPT
                           ![m] = NormalizeAngle(ClampTarget(angle, lo, hi))]
                 /\ (pc' = "check") =>
                        (mv'.caller = "MOVE" /\ mv'.motor_id = m
                         /\ mv'.requested = angle
                         /\ mv'.min_angle = lo /\ mv'.max_angle = hi)
                 /\ (pc' # "check") =>
                        NormalizeAngle(ClampTarget(angle, lo, hi))
                          = DisplayedAngle(current_position_steps[m])]_vars

\* MOVE with the motor 1 and no angle that converts (MOVE:1 or
\* MOVE:1:<unparsable>:1:359) is being planned to 0 within 0..360.
C23_Witness ==
    /\ current_position_steps[1] = MaxFormPos
    /\ pc = "check"
    /\ mv.caller = "MOVE"
    /\ mv.motor_id = 1
    /\ mv.requested = 0
    /\ mv.min_angle = 0
    /\ mv.max_angle = FULL_CIRCLE

\* Everything of the motors other than m is left as it is.
OthersUntouched(m) ==
    \A o \in Motors \ {m} :
       /\ current_position_steps'[o] = current_position_steps[o]
       /\ seq_idx'[o] = seq_idx[o]
       /\ motor_state'[o] = motor_state[o]
       /\ timer_running'[o] = timer_running[o]
       /\ coils'[o] = coils[o]

\* C24: a step of the receiver task inside a command for motor m (the ZERO
\* stores, every step of motor_move_to) changes nothing of the other motor,
\* and receiving ANGLE, MOVE or VALUE changes no motor at all; a timer alarm
\* is one motor's tick and changes nothing of the other; and wherever both
\* timers are running the two motors' ticks give the same state in either
\* order.
C24_MotorIsolation ==
    [][/\ (pc # "recv" /\ pc' # pc) => OthersUntouched(mv.motor_id)
       /\ (pc = "recv" /\ ncmds' # ncmds) =>
              IF pc' = "zero_seq"
              THEN OthersUntouched(mv'.motor_id)
              ELSE UNCHANGED motorVars
       /\ (pc' = pc /\ ncmds' = ncmds) =>
              /\ \E m \in Motors :
                    /\ timer_running[m]
                    /\ OthersUntouched(m)
                    /\ MotorsNow' = Ticked(m, MotorsNow)
              /\ (timer_running[0] /\ timer_running[1]) =>
                    Ticked(0, Ticked(1, MotorsNow)) = Ticked(1, Ticked(0, MotorsNow))]_vars

\* Both motors stepping at once, each already away from 0.
C24_Witness ==
    /\ motor_state[0].active /\ timer_running[0]
    /\ motor_state[1].active /\ timer_running[1]
    /\ current_position_steps[0] # 0
    /\ current_position_steps[1] # 0

\* C25: once heartbeat_task is in its loop, it always comes to send again:
\* from the head of the loop it reaches the delay (which only a sendto leads
\* to) and from the delay the head of the loop, whatever the receiver task
\* and the timers do.
C25_HeartbeatNotStarved ==
    /\ (hb_pc = "loop") ~> (hb_pc = "delay")
    /\ (hb_pc = "delay") ~> (hb_pc = "loop")

\* A heartbeat has just been sent while the receiver task is inside
\* motor_move_to and the motor is stepping.
C25_Witness ==
    /\ hb_pc = "delay"
    /\ hb_ret = "ok"
    /\ InMove
    /\ motor_state[0].active
    /\ current_position_steps[0] # 0

\* C26: the pass of the loop in which sendto fails goes on to the delay as a
\* successful one does, changes nothing but the result (the count is left
\* alone), never ends the task, and after the delay the loop sends again.
C26_FailedSendKeepsLoop ==
    /\ [][/\ (hb_pc = "loop" /\ hbVars' # hbVars) =>
                 /\ hb_pc' = "delay"
                 /\ hb_ret' = "failed" => heartbeat_count' = heartbeat_count
          /\ (hb_pc = "delay" /\ hb_pc' # "delay") => hb_pc' = "loop"]_vars
    /\ (hb_pc = "delay" /\ hb_ret = "failed") ~> (hb_pc = "loop")

\* Back at the head of the loop after the delay that followed a failed send,
\* with sends counted before it.
C26_Witness ==
    /\ hb_pc = "loop"
    /\ hb_ret = "failed"
    /\ heartbeat_count > 0

\* C27: at most one peer is connected at a time; while the task waits in
\* accept log_socket is -1; and no log line is written to the client socket
\* once recv has reported the loss, nor to the descriptor once it is closed.
C27_OneClientThenDisabled ==
    /\ Cardinality({c \in Clients : conn[c] \in {"accepted", "gone"}}) <= 1
    /\ log_pc = "accept" => log_socket = -1
    /\ log_dest \notin {"detected", "closed"}

\* C28: whenever the dual-motor motor_move_to plans a move, the single-motor
\* motor_move_to, called with the same target and bounds at the same needle
\* angle, plans a move too, with the same direction and the same step count.
C28_OnePlanner ==
    InMove =>
        LET air == AirPlanMove(StepsToAngle(mv.pos_read), mv.requested,
                               mv.min_angle, mv.max_angle)
        IN  /\ air.diff # 0
            /\ air.direction = mv.direction
            /\ air.steps = mv.steps

\* C29 as stated: the timer is stopped before every write of the plan, and
\* the counter has been reset by then, so that the write is followed by the
\* restart.
C29_Stated ==
    [][/\ (pc # "write" /\ pc' = "write") => pc = "clear"
       /\ (pc = "write" /\ pc' # "write") => pc' = "start"]_vars

\* C29: motor_move_to installs a plan in this order: gptimer_stop and
\* active = false when the motor was active (and only then), the writes of
\* the plan fields, the counter reset, gptimer_start; the timer is not running
\* from the writes to the start.
C29_InstallOrder ==
    [][/\ (pc = "check" /\ pc' # "check") =>
              pc' = (IF motor_state[mv.motor_id].active THEN "stop" ELSE "write")
       /\ (pc = "stop" /\ pc' # "stop") =>
              (pc' = "clear" /\ ~timer_running'[mv.motor_id])
       /\ (pc = "clear" /\ pc' # "clear") =>
              (pc' = "write" /\ ~motor_state'[mv.motor_id].active)
       /\ (pc = "write" /\ pc' # "write") =>
              /\ pc' = "reset"
              /\ ~timer_running[mv.motor_id]
              /\ motor_state'[mv.motor_id].active
              /\ motor_state'[mv.motor_id].steps_remaining = mv.steps
              /\ motor_state'[mv.motor_id].direction = mv.direction
       /\ (pc = "reset" /\ pc' # "reset") =>
              (pc' = "start" /\ ~timer_running[mv.motor_id]
               /\ motor_state'[mv.motor_id] = motor_state[mv.motor_id])
       /\ (pc = "start" /\ pc' # "start") =>
              (pc' = mv.ret /\ timer_running'[mv.motor_id])]_vars

\* The plan of a preempting call is written and the counter not yet reset.
C29_Witness ==
    /\ pc = "reset"
    /\ mv.was_active
    /\ motor_state[mv.motor_id].active
    /\ motor_state[mv.motor_id].steps_remaining = mv.steps
    /\ ~timer_running[mv.motor_id]

\* C30: an alarm of motor m's timer while m is active with steps remaining
\* drives the coils with the row of the current phase index, moves the phase
\* index by one row (back for motor 0 stepping forward, forward for motor 1),
\* lowers steps_remaining by 1, moves current_position_steps by the
\* direction, which is +1 or -1, and clears active and stops the timer in
\* that same alarm exactly when no steps remain.
C30_ActiveTick ==
    [][(pc' = pc /\ ncmds' = ncmds) =>
          \A m \in Motors :
             (/\ timer_running[m]
              /\ motor_state[m].active
              /\ motor_state[m].steps_remaining > 0
              /\ << current_position_steps'[m], seq_idx'[m], motor_state'[m],
                    coils'[m], timer_running'[m] >>
                 # << current_position_steps[m], seq_idx[m], motor_state[m],
                      coils[m], timer_running[m] >>) =>
                 /\ coils'[m] = SEQUENCE_FULL[seq_idx[m] + 1]
                 /\ seq_idx'[m] \in {(seq_idx[m] + 1) % SEQ_LEN,
                                     (seq_idx[m] + SEQ_LEN - 1) % SEQ_LEN}
                 /\ seq_idx'[m] =
                       (IF (motor_state[m].direction > 0) = (m = 0)
                        THEN (seq_idx[m] + SEQ_LEN - 1) % SEQ_LEN
                        ELSE (seq_idx[m] + 1) % SEQ_LEN)
                 /\ motor_state[m].direction \in {1, -1}
                 /\ motor_state'[m].steps_remaining = motor_state[m].steps_remaining - 1
                 /\ current_position_steps'[m] =
                       current_position_steps[m] + motor_state[m].direction
                 /\ motor_state'[m].active = (motor_state'[m].steps_remaining > 0)
                 /\ timer_running'[m] = motor_state'[m].active
                 /\ motor_state'[m].direction = motor_state[m].direction
                 /\ motor_state'[m].target_angle = motor_state[m].target_angle]_vars

\* Motor 1 two steps back into a move of five.
C30_Witness ==
    /\ motor_state[1].active
    /\ motor_state[1].direction = -1
    /\ motor_state[1].steps_remaining = 3
    /\ current_position_steps[1] = -2
    /\ coils[1] = SEQUENCE_FULL[seq_idx[1] + 2]

\* C31: an alarm that finds its motor without a plan (active clear, or no
\* steps remaining) changes no coil output and leaves the step count, the
\* phase index and every field of the motor's state as they were, in the
\* dual-motor and in the single-motor firmware.
C31_IdleTickNoOp ==
    [][/\ \A m \in Motors :
             (~motor_state[m].active \/ motor_state[m].steps_remaining <= 0) =>
                 /\ coils'[m] = coils[m]
                 /\ current_position_steps'[m] = current_position_steps[m]
                 /\ seq_idx'[m] = seq_idx[m]
                 /\ motor_state'[m] = motor_state[m]
       /\ (~air_motor_state.active \/ air_motor_state.steps_remaining <= 0) =>
             /\ air_coils' = air_coils
             /\ air_current_position' = air_current_position
             /\ air_seq_idx' = air_seq_idx
             /\ air_shaft' = air_shaft
             /\ air_motor_state' = air_motor_state]_vars

\* Motor 0's alarm served with the flag set and no steps remaining, the
\* coils still on their row.
C31_Witness ==
    /\ ~timer_running[0]
    /\ motor_state[0].active
    /\ motor_state[0].steps_remaining = 0
    /\ coils[0] = SEQUENCE_FULL[1]
    /\ seq_idx[0] = 2

\* C32: with no command handled, a plan of n steps in direction d installed
\* on motor m at step count p ends with the motor idle at p + d*n; each alarm
\* on the way takes exactly one step off steps_remaining, so that is after n
\* alarms; and once the motor is idle no alarm changes its state.
C32_PlanCompletes ==
    /\ \A m \in Motors : \A n \in 1..MaxTickSteps : \A d \in {1, -1} :
       \A p \in (-MaxTickPos - MaxTickSteps)..(MaxTickPos + MaxTickSteps) :
          (/\ motor_state[m].active
           /\ timer_running[m]
           /\ motor_state[m].steps_remaining = n
           /\ motor_state[m].direction = d
           /\ current_position_steps[m] = p)
          ~> (/\ ~motor_state[m].active
              /\ motor_state[m].steps_remaining = 0
              /\ current_position_steps[m] = p + d * n)
    /\ [][\A m \in Motors :
             /\ (motor_state[m].active /\ motor_state[m].steps_remaining > 0
                 /\ MotorsNow' # MotorsNow /\ Ticked(m, MotorsNow) = MotorsNow') =>
                    /\ motor_state'[m].steps_remaining =
                          motor_state[m].steps_remaining - 1
                    /\ motor_state'[m].active = (motor_state'[m].steps_remaining > 0)
             /\ ~motor_state[m].active =>
                    /\ motor_state'[m] = motor_state[m]
                    /\ current_position_steps'[m] = current_position_steps[m]
                    /\ seq_idx'[m] = seq_idx[m]
                    /\ coils'[m] = coils[m]]_vars

C32_Witness ==
    /\ ~motor_state[1].active
    /\ ~timer_running[1]
    /\ motor_state[1].steps_remaining = 0
    /\ motor_state[1].direction = -1
    /\ current_position_steps[1] = -MaxTickPos - MaxTickSteps

\* C33: whenever the receiver is back at recvfrom (the last datagram fully
\* handled, alarms served whole), a motor with active set has
\* steps_remaining > 0 and a direction of +1 or -1; before the first datagram
\* every motor is at step count 0 with active clear; and the phase index is
\* in 0..3 in every state.
C33_StateMachine ==
    /\ \A m \in Motors : seq_idx[m] \in 0..(SEQ_LEN - 1)
    /\ ncmds = 0 =>
          \A m \in Motors :
             current_position_steps[m] = 0 /\ ~motor_state[m].active
    /\ pc = "recv" =>
          \A m \in Motors :
             motor_state[m].active =>
                /\ motor_state[m].steps_remaining > 0
                /\ motor_state[m].direction \in {1, -1}

\* Motor 0 one step into a forward plan of five, the datagram handled.
C33_Witness ==
    /\ pc = "recv"
    /\ motor_state[0].active
    /\ motor_state[0].steps_remaining = 4
    /\ motor_state[0].direction = 1
    /\ seq_idx[0] = SEQ_LEN - 1

\* C34: an alarm that steps motor 0 moves its phase index by -1 modulo 4
\* when the direction is +1 and by +1 when it is -1; one that steps motor 1
\* moves its phase index by +1 when the direction is +1 and by -1 when it is
\* -1; the other motor's phase index is left as it was.
C34_PhaseMapping ==
    [][\A m \in Motors :
          (/\ motor_state[m].active
           /\ motor_state[m].steps_remaining > 0
           /\ motor_state'[m].steps_remaining = motor_state[m].steps_remaining - 1) =>
              LET d == motor_state[m].direction
                  by == IF m = 0 THEN -d ELSE d
              IN  /\ d \in {1, -1}
                  /\ seq_idx'[m] = (seq_idx[m] + by + SEQ_LEN) % SEQ_LEN
                  /\ \A o \in Motors \ {m} : seq_idx'[o] = seq_idx[o]]_vars

\* From phase 0 both motors have stepped to phase 3: motor 0 forward,
\* motor 1 backward.
C34_Witness ==
    /\ current_position_steps[0] = MaxTickPos + 1
    /\ motor_state[0].direction = 1
    /\ seq_idx[0] = SEQ_LEN - 1
    /\ coils[0] = SEQUENCE_FULL[1]
    /\ current_position_steps[1] = -MaxTickPos - 1
    /\ motor_state[1].direction = -1
    /\ seq_idx[1] = SEQ_LEN - 1
    /\ coils[1] = SEQUENCE_FULL[1]

\* The motor_move_to call an ANGLE or MOVE datagram makes.
MoveCall(d) ==
    IF d.prefix = "ANGLE"
    THEN [m |-> NamedMotor(d), angle |-> NamedNumber(d), lo |-> 0, hi |-> FULL_CIRCLE]
    ELSE [m |-> FieldOr(d, 1, 0), angle |-> FieldOr(d, 2, 0),
          lo |-> FieldOr(d, 3, 0), hi |-> FieldOr(d, 4, FULL_CIRCLE)]

MoveCommands ==
    {d \in RunDatagrams :
        (d.prefix = "ANGLE" /\ FormOk(d)) \/ d.prefix = "MOVE"}

C36_BugAngle ==
    [][/\ (pc = "bug" /\ pc' # "bug" /\ heading_bug_target >= 0) =>
             last_target'[1] =
                (heading_bug_target - current_compass_heading) % FULL_CIRCLE
       /\ (pc = "recv" /\ ncmds' # ncmds) =>
             \A d \in BugDatagrams :
                (Receive(d) /\ d.fields[1].v = 1) =>
                   last_target'[1] =
                      (d.fields[2].v - current_compass_heading) % FULL_CIRCLE]_vars

\* The row of SEQUENCE_FULL that a coil pattern is (rows are 0..3).
RowOf(pattern) == CHOOSE i \in 0..(SEQ_LEN - 1) : SEQUENCE_FULL[i + 1] = pattern

\* C37: the pattern an alarm drives the coils of a stepping motor with is
\* the neighbour, one row on modulo 4, of the pattern the motor's previous
\* step drove them with, on the side of the current plan's direction (for
\* motor 0, wired reversed, the row before when stepping forward), so that
\* the rows gone through either way are the steps counted in
\* current_position_steps, also when the plan's direction is opposite to
\* that of the plan before.
C37_CoilContinuity ==
    [][\A m \in Motors :
          (/\ motor_state[m].active
           /\ motor_state[m].steps_remaining > 0
           /\ motor_state'[m].steps_remaining = motor_state[m].steps_remaining - 1
           /\ coils[m] # CoilsOff) =>
              LET d == motor_state[m].direction
                  by == IF m = 0 THEN -d ELSE d
              IN  RowOf(coils'[m]) = (RowOf(coils[m]) + by + SEQ_LEN) % SEQ_LEN]_vars

\* C38: the receiver task and app_main are never both inside motor_move_to
\* for the same motor; the homing calls app_main makes after creating the
\* receiver task do not overlap a call the receiver makes for a datagram.
C38_SinglePlanner ==
    ~(InMove /\ MainInMove /\ mv.motor_id = main_mv.motor_id)

\* C39: a poll changes the encoder value only when it reads CLK as 0 and the
\* poll before read it as 1, by +1 when DT then reads 1 and by -1 when it
\* reads 0; it sends one event for that change and one for a button state
\* that differs from the last reported one on both reads, and no other; every
\* event carries the new value, and a poll without the falling edge leaves
\* the value as it was, whatever the button does.
C39_EncoderReader ==
    [][\A clk \in Levels, dt_first \in Levels, dt \in Levels,
          btn_first \in Levels, btn_again \in Levels :
          EncoderPoll(clk, dt_first, dt, btn_first, btn_again) =>
             LET falling == last_clk_state = 1 /\ clk = 0
                 changed == /\ (btn_first = 0) # (last_button_state = 1)
                            /\ (btn_again = 0) # (last_button_state = 1)
             IN  /\ (enc_value' # enc_value) => falling
                 /\ falling => enc_value' = enc_value + (IF dt = 1 THEN 1 ELSE -1)
                 /\ Len(enc_sent') = (IF falling THEN 1 ELSE 0)
                                       + (IF changed THEN 1 ELSE 0)
                 /\ \A k \in 1..Len(enc_sent') :
                       /\ enc_sent'[k].value = enc_value'
                       /\ enc_sent'[k].state \in {"PRESSED", "released"}
                 /\ changed =>
                       enc_sent'[Len(enc_sent')].state =
                          (IF btn_again = 0 THEN "PRESSED" ELSE "released")
                 /\ (changed /\ ~falling) => enc_value' = enc_value]_vars

\* The encoder turned back to -2 by a poll in which the button was also
\* found pressed: two events, both with the value -2.
C39_Witness ==
    /\ enc_value = -2
    /\ Len(enc_sent) = 2
    /\ enc_sent[1].value = -2
    /\ enc_sent[2] = EncoderEvent(-2, 1)
    /\ last_button_state = 1
    /\ last_clk_state = 0

====
